---- MODULE Spec2Model ----
(***************************************************************************)
(* Model of the event-driven automation host: the PlaylistManager that     *)
(* serialises audio playback (src/src/services/playlist.ts), the TTS       *)
(* action handler that feeds it (src/plugins/TTSPlugin.ts) and the action  *)
(* registry that plugins register their handlers in.                       *)
(*                                                                         *)
(* The program runs on a single-threaded cooperative event loop.  Every    *)
(* action below is one run-to-completion step: the code executed between   *)
(* two suspension points (await, timer, setImmediate) of one asynchronous  *)
(* call.                                                                   *)
(***************************************************************************)
EXTENDS Integers, Sequences, FiniteSets, TLC

\* ------------------------------------------------------------------------
\* Bounds of the model
\* ------------------------------------------------------------------------
\* number of asynchronous public calls in flight at the same time
MaxCalls == 1
\* number of nextTrack chains started by the monitor's setImmediate that are
\* in flight at the same time
MaxAuto == 1
\* addTrack is called while the playlist is shorter than this
MaxLen == 2
\* nextTrack is called (by a caller or by the monitor) while the cursor is
\* below this
MaxIndex == 3
\* length of the recorded prefix of the device's play() commands
MaxPlays == 3
\* onPlaylistEnd invocations counted
MaxEnds == 2
\* polls of waitForIdle (50 ms each) before its timeout has elapsed
PollLimit == 1
\* clips synthesized by the TTS action
MaxClips == 2
\* length of the lists handed to loadTracks when its filtering is examined
MaxList == 2
\* handler runs recorded
MaxRuns == 4

\* ------------------------------------------------------------------------
\* Tracks:  type Track = string | Buffer
\* A string track is kept as the list of its "."-separated segments, which
\* is what track.split(".") yields; a buffer by an identity and its length.
\* ------------------------------------------------------------------------
File(segs) == [type |-> "string", segs |-> segs, id |-> 0, length |-> 0]
Buf(id, len) == [type |-> "buffer", segs |-> <<>>, id |-> id, length |-> len]
\* a value that is neither a string nor a Buffer (an untyped caller)
Other == [type |-> "other", segs |-> <<>>, id |-> 0, length |-> 0]
\* the value of tracks[i] outside the array, and of an unset local
NoTrack == [type |-> "undefined", segs |-> <<>>, id |-> 0, length |-> 0]

\* the files present on disk (fs.existsSync)
ExistingFiles == { <<"a", "mp3">>, <<"b", "MP3">>, <<"c", "txt">>, <<"wav">> }
existsSync(t) == t.segs \in ExistingFiles

\* String.prototype.toLowerCase on the extensions the model uses
toLowerCase(s) ==
  CASE s = "MP3" -> "mp3"
    [] s = "WAV" -> "wav"
    [] OTHER -> s

\* isFormatSupported of miniaudio_node
isFormatSupported(ext) == ext \in {"mp3", "wav", "flac", "ogg"}

\* track.split(".").pop()?.toLowerCase()
extensionOf(t) == toLowerCase(t.segs[Len(t.segs)])

\* !extension || !isFormatSupported(extension)
BadExtension(t) == extensionOf(t) = "" \/ ~isFormatSupported(extensionOf(t))

\* JavaScript truthiness of a track value: undefined and "" are falsy
Truthy(t) == t.type # "undefined" /\ ~(t.type = "string" /\ t.segs = <<"">>)

\* the action names of ACTIONS that the three plugins below register
ActionNames ==
  {"TTS", "lastcomment", "datetime", "evaluate", "tts_direct", "ai_respond",
   "evaluate_and_speak"}

\* AIPlugin, EvaluatorPlugin and TTSPlugin, by their name fields
PluginNames == {"ai-service", "evaluator-service", "tts-service"}

\* a handler is known by the plugin whose onLoad created it and the name it
\* was registered under
Handler(p, n) == [plugin |-> p, name |-> n]
NoHandler == Handler("", "")

\* ------------------------------------------------------------------------
\* Rule engine: rules, conditions, helpers, platforms
\* ------------------------------------------------------------------------
MaxDispatch == 1     \* dispatches of the rule engine in flight at once

\* the rules the files of the rules directory define: id |-> rule
NoCondition == [kind |-> "absent", helper |-> ""]
Never == [kind |-> "false", helper |-> ""]
Uses(h) == [kind |-> "helper", helper |-> h]
Rule(e, c, a, en) == [eventName |-> e, condition |-> c, actions |-> a,
                      enabled |-> en]
RuleDefs ==
  <<Rule("chat", Uses("last"), <<"TTS", "lastcomment">>, TRUE),
    Rule("chat", Never, <<"TTS">>, TRUE),
    Rule("chat", NoCondition, <<"lastcomment">>, TRUE),
    Rule("gift", NoCondition, <<"TTS">>, FALSE)>>

\* the files of the rules directory, in the order the loader reads them,
\* and the rules each one defines
RuleFileNames == <<"chat.yaml", "greet.yaml", "gift.yaml">>
RulesOf(f) ==
  CASE f = "chat.yaml" -> <<1, 2>>
    [] f = "greet.yaml" -> <<3>>
    [] OTHER -> <<4>>

\* the helpers the plugins register in onLoad (RegisterPlugin.ts:53-61,
\* mcplugin.ts:78), and one registered later through the shared api
HELPERS == {"last", "clean"}
OnLoadHelpers == HELPERS \cup {"mcHelper"}
LateHelpers == {"extra"}

\* PLATFORMS of the constants file; PLATFORMS.SYSTEM is not defined there,
\* so inputPlugin emits on undefined
PLATFORMS == {"youtube", "twitch", "tiktok", "kick"}
PlatformNames == PLATFORMS \cup {"undefined"}

EventNames == {"", "chat", "gift"}
DataValues == {"object", "undefined"}

\* faulty variant: the engine is constructed with a rule
InitialRulesPreset == <<3>>

\* the rules the engine is constructed with (plugin.ts:19)
InitialRules == <<>>

\* Socket.io frames as token sequences: the characters 4 and 2 of the
\* packet type, and the tokens of the JSON text that follows
MaxPrefix == 3       \* longest run of packet-type characters of a frame
MaxBody == 5         \* longest JSON text of a frame, in tokens
MaxCommands == 3     \* send() calls made on the RconManager
\* config.maxReconnectAttempts of the RconManager (5 unless configured)
DefaultMaxReconnectAttempts == 2
\* attemptReconnect calls waiting for their timer at the same time
MaxDelays == 2
MaxSockets == 4      \* sockets a TikTokWebSocket creates
\* options.maxReconnectAttempts of the TikTokWebSocket (10 unless configured)
MaxReconnects == 2
\* reconnect timers of the TikTokWebSocket pending without a handle
MaxLostTimers == 1
PrefixChars == {"4", "2"}
JsonStrings == {"chat"}
JsonObjects == {"{}"}
JsonValues == JsonStrings \cup JsonObjects
BodyTokens == {"[", "]", ","} \cup JsonValues
\* the result null, and the result { eventName, data }
Null == [isNull |-> TRUE, eventName |-> "", data |-> "null"]
Parsed(name, payload) == [isNull |-> FALSE, eventName |-> name,
                          data |-> payload]

\* a dispatch slot that holds no processEventSimple call
IdleDispatch == [pc |-> "idle", event |-> "", helpers |-> {},
                 snapshot |-> <<>>, ri |-> 0, ai |-> 0, log |-> <<>>,
                 threw |-> FALSE,
                 registeredAtStart |-> {}, loadedAtStart |-> FALSE,
                 newRulesAtStart |-> <<>>]
\* nothing emitted yet
NoEmit == [eventName |-> "", data |-> "undefined", handed |-> 0]

VARIABLES
  tracks,            \* PlaylistManager.tracks
  currentTrackIndex, \* PlaylistManager.currentTrackIndex
  isPlaying,         \* PlaylistManager.isPlaying
  loop,              \* PlaylistManager.loop
  isBusy,            \* PlaylistManager.isBusy
  monitorInterval,   \* TRUE iff the setInterval timer of monitorPlayback is armed
  isStopping,        \* PlaylistManager.isStopping
  onPlaylistEnd,     \* TRUE iff the playlistEnd callback is set
  immediates,        \* pending setImmediate callbacks of the monitor
  devPlaying,        \* player.isPlaying() of the audio device
  devLoaded,         \* the track the audio device has loaded
  playLog,           \* the first MaxPlays synthesized clips the device was
                     \* told to play()
  endCount,          \* number of onPlaylistEnd invocations (up to MaxEnds)
  calls,             \* the asynchronous calls: position and locals of each
  audioFiles,        \* TTSPlugin.audioFiles
  registry,          \* ActionRegistry: the handler registered under each name
  plugins,           \* position of each plugin's onLoad
  regLog,            \* the register() calls made so far, in order
  runLog,            \* the handlers run so far, in order (up to MaxRuns)
  pendingDecision,   \* the decision an evaluate_and_speak handler is about
                     \* to act on, "none" when none is suspended
  rules,             \* RuleEngine: the active rule set, ids in store order
  ruleFiles,         \* the rules the files of the rules directory define
  watcherPending,    \* TRUE iff the watcher owes a callback for a change
  rulesLoaded,       \* TRUE iff a watcher callback has run
  newRules,          \* the rules the watcher handed to its last callback
  helpers,           \* HelperRegistry.helpers: the registered names
  pluginHelpers,     \* the helper map main took at startup
  mainFile,          \* the entry point that ran: "none" before main()
  dispatches,        \* the processEventSimple calls: position and locals
  emitted,           \* the last context.emit and how often its event was
                     \* handed to the engine
  ws,                \* the TikTokWebSocket: its fields, the sockets it has
                     \* created and the timers it has pending
  manager,           \* the RconManager: its fields, and the calls it has
                     \* pending
  disposed,          \* TRUE iff dispose() has returned and the manager was
                     \* given nothing to do since
  stopped,           \* TRUE iff stop() has returned and no playback call was
                     \* made since
  frames,            \* the frames the tikfinity socket has yet to deliver
  message,           \* the last frame the tikfinity socket delivered
  parsed             \* what parseSocketIo42Message made of it

vars == <<tracks, currentTrackIndex, isPlaying, loop, isBusy, monitorInterval,
          isStopping, onPlaylistEnd, immediates, devPlaying, devLoaded, playLog,
          endCount, calls, audioFiles, registry, plugins, regLog, runLog,
          pendingDecision, rules, ruleFiles, watcherPending, rulesLoaded, newRules,
          helpers, pluginHelpers, mainFile, dispatches, emitted, frames,
          message, parsed, stopped, disposed, manager, ws>>

PublicSlots == 1..MaxCalls
AutoSlots == (MaxCalls + 1)..(MaxCalls + MaxAuto)
Slots == PublicSlots \cup AutoSlots

\* a call that has not been made yet
IdleCall == [op |-> "none", pc |-> "idle", cur |-> NoTrack, idx |-> 0,
             list |-> <<>>, waited |-> 0]

\* the whole state as one record, so that the methods below compose
Cur == [tracks |-> tracks, currentTrackIndex |-> currentTrackIndex,
        isPlaying |-> isPlaying, loop |-> loop, isBusy |-> isBusy,
        monitorInterval |-> monitorInterval, isStopping |-> isStopping,
        onPlaylistEnd |-> onPlaylistEnd, immediates |-> immediates,
        devPlaying |-> devPlaying, devLoaded |-> devLoaded,
        playLog |-> playLog, endCount |-> endCount, calls |-> calls,
        audioFiles |-> audioFiles, registry |-> registry, plugins |-> plugins,
        regLog |-> regLog, runLog |-> runLog,
        pendingDecision |-> pendingDecision, rules |-> rules,
        ruleFiles |-> ruleFiles, watcherPending |-> watcherPending,
        rulesLoaded |-> rulesLoaded, newRules |-> newRules,
        helpers |-> helpers,
        pluginHelpers |-> pluginHelpers, mainFile |-> mainFile,
        dispatches |-> dispatches, emitted |-> emitted,
        frames |-> frames, message |-> message, parsed |-> parsed,
        stopped |-> stopped, disposed |-> disposed, manager |-> manager,
        ws |-> ws]

Apply(s) ==
  /\ tracks' = s.tracks
  /\ currentTrackIndex' = s.currentTrackIndex
  /\ isPlaying' = s.isPlaying
  /\ loop' = s.loop
  /\ isBusy' = s.isBusy
  /\ monitorInterval' = s.monitorInterval
  /\ isStopping' = s.isStopping
  /\ onPlaylistEnd' = s.onPlaylistEnd
  /\ immediates' = s.immediates
  /\ devPlaying' = s.devPlaying
  /\ devLoaded' = s.devLoaded
  /\ playLog' = s.playLog
  /\ endCount' = s.endCount
  /\ calls' = s.calls
  /\ audioFiles' = s.audioFiles
  /\ registry' = s.registry
  /\ plugins' = s.plugins
  /\ regLog' = s.regLog
  /\ runLog' = s.runLog
  /\ pendingDecision' = s.pendingDecision
  /\ rules' = s.rules
  /\ ruleFiles' = s.ruleFiles
  /\ watcherPending' = s.watcherPending
  /\ rulesLoaded' = s.rulesLoaded
  /\ newRules' = s.newRules
  /\ helpers' = s.helpers
  /\ pluginHelpers' = s.pluginHelpers
  /\ mainFile' = s.mainFile
  /\ dispatches' = s.dispatches
  /\ emitted' = s.emitted
  /\ frames' = s.frames
  /\ stopped' = s.stopped
  /\ disposed' = s.disposed
  /\ manager' = s.manager
  /\ ws' = s.ws
  /\ message' = s.message
  /\ parsed' = s.parsed

\* the commands handed to RconManager.send, numbered in the order of the calls
Commands == 1..MaxCommands

\* RconManager after its constructor (fields of part_004:48-54 and the
\* maxReconnectAttempts of its config), with the calls it has pending:
\*   connecting  who called the Rcon.connect in flight ("none" when none is)
\*   delays      attemptReconnect calls waiting for the reconnectDelay timer
\*   sending     commands whose send() awaits rcon.send
\*   processing  the command whose rcon.send processQueue awaits, 0 when none
\*   ending      TRUE while disconnect() awaits rcon.end()
\* and the history the properties need:
\*   sends       number of send() calls made
\*   sent        the last command handed to rcon.send, 0 before the first
\*   outcome     what became of the promise send() returned for each command
\*   disconnected  TRUE iff disconnect() was called and neither connect() nor
\*                 send() since
\*   instance    TRUE iff RconManager.instance refers to the manager
NewManager ==
  [rcon |-> "null", isConnected |-> FALSE, isConnecting |-> FALSE,
   reconnectAttempts |-> 0, commandQueue |-> <<>>, isProcessingQueue |-> FALSE,
   maxReconnectAttempts |-> DefaultMaxReconnectAttempts,
   connecting |-> "none", delays |-> 0, sending |-> {}, processing |-> 0,
   ending |-> FALSE,
   sends |-> 0, sent |-> 0, outcome |-> [k \in Commands |-> "none"],
   disconnected |-> FALSE, instance |-> TRUE]

\* TikTokWebSocket after its constructor (tiktok/websocket.ts:20-38), with
\* the sockets it has created and its timers:
\*   socket          the socket this.socket refers to, 0 for null
\*   reconnectTimer  "null", or what became of the timer this.reconnectTimer
\*                   is the handle of: "pending" or "fired"
\*   readyState      of each socket created ("none" before it is); "closed"
\*                   once its close event has been delivered
\*   made            number of sockets created
\*   lostTimers      pending reconnect timers whose handle was overwritten
\*   disconnected    TRUE iff disconnect() was called and neither connect()
\*                   nor updatePayload() since
NewTikTokWebSocket ==
  [socket |-> 0, payload |-> "channelA", reconnectAttempts |-> 0,
   reconnectTimer |-> "null",
   isManuallyClosed |-> FALSE, reconnect |-> TRUE,
   maxReconnectAttempts |-> MaxReconnects,
   readyState |-> [i \in 1..MaxSockets |-> "none"], made |-> 0,
   lostTimers |-> 0, disconnected |-> FALSE]

\* state after construction (playlist.ts:25-33, 44-46)
Constructed ==
  /\ tracks = <<>>
  /\ currentTrackIndex = 0
  /\ isPlaying = FALSE
  /\ loop = FALSE
  /\ isBusy = FALSE
  /\ monitorInterval = FALSE
  /\ isStopping = FALSE
  /\ onPlaylistEnd = FALSE
  /\ immediates = 0
  /\ devPlaying = FALSE
  /\ devLoaded = NoTrack
  /\ playLog = <<>>
  /\ endCount = 0
  /\ calls = [c \in Slots |-> IdleCall]
  /\ audioFiles = <<>>
  /\ registry = [n \in ActionNames |-> NoHandler]
  /\ plugins = [p \in PluginNames |-> "registered"]
  /\ regLog = <<>>
  /\ runLog = <<>>
  /\ pendingDecision = "none"
  /\ rules = InitialRules
  /\ ruleFiles = {}
  /\ watcherPending = FALSE
  /\ rulesLoaded = FALSE
  /\ newRules = <<>>
  /\ helpers = {}
  /\ pluginHelpers = {}
  /\ mainFile = "none"
  /\ dispatches = [d \in 1..MaxDispatch |-> IdleDispatch]
  /\ emitted = NoEmit
  /\ message = <<>>
  /\ parsed = Null
  /\ stopped = FALSE
  /\ disposed = FALSE
  /\ manager = NewManager
  /\ ws = NewTikTokWebSocket

Init == Constructed /\ frames = <<>>

\* ------------------------------------------------------------------------
\* The audio device (miniaudio_node AudioPlayer), a black box: it holds one
\* loaded sound and is playing or not.
\* ------------------------------------------------------------------------
playerStop(s) == [s EXCEPT !.devPlaying = FALSE]
playerPause(s) == [s EXCEPT !.devPlaying = FALSE]
playerLoad(s, t) == [s EXCEPT !.devLoaded = t, !.devPlaying = FALSE]
\* the buffers of TTSPlugin.audioFiles
IsClip(s, t) == \E i \in 1..Len(s.audioFiles) : s.audioFiles[i] = t

playerPlay(s) ==
  IF s.devLoaded = NoTrack THEN s
  ELSE [s EXCEPT !.devPlaying = TRUE,
                 !.playLog = IF IsClip(s, s.devLoaded) /\ Len(@) < MaxPlays
                             THEN Append(@, s.devLoaded)
                             ELSE @]

\* ------------------------------------------------------------------------
\* PlaylistManager methods, as transformers of the state record.  c is the
\* asynchronous call on whose behalf the code runs.
\* ------------------------------------------------------------------------
\* a call that is over keeps no locals: it has returned ("done"), returned
\* at the isBusy guard of playCurrentTrack ("skipped"), or thrown ("threw")
Return(s, c) == [s EXCEPT !.calls[c] = [IdleCall EXCEPT !.pc = "done"]]
Skip(s, c) == [s EXCEPT !.calls[c] = [IdleCall EXCEPT !.pc = "skipped"]]
Throw(s, c) == [s EXCEPT !.calls[c] = [IdleCall EXCEPT !.pc = "threw"]]
\* the finally block of playCurrentTrack
Finally(s) == [s EXCEPT !.isBusy = FALSE]

TrackAt(s, i) ==
  IF i >= 0 /\ i < Len(s.tracks) THEN s.tracks[i + 1] ELSE NoTrack

clearMonitorInterval(s) == [s EXCEPT !.monitorInterval = FALSE]

\* arms the interval; its callback is the action MonitorTick
monitorPlayback(s) == [clearMonitorInterval(s) EXCEPT !.monitorInterval = TRUE]

\* faulty variant: the entry test refusing empty buffers
AcceptedByLoadTracksNonEmpty(t) ==
  \/ t.type = "string" /\ ~BadExtension(t) /\ existsSync(t)
  \/ t.type = "buffer" /\ t.length > 0

\* the entry test of loadTracks for one element of the list
AcceptedByLoadTracks(t) ==
  \/ t.type = "string" /\ ~BadExtension(t) /\ existsSync(t)
  \/ t.type = "buffer"

validTracks(list) == SelectSeq(list, AcceptedByLoadTracks)

\* loadTracks suspends at "await import(node:fs)" for a string entry whose
\* extension is supported
LoadTracksAwaits(list) ==
  \E i \in 1..Len(list) : list[i].type = "string" /\ ~BadExtension(list[i])

loadTracksFinish(s, c) ==
  Return([s EXCEPT !.tracks = validTracks(s.calls[c].list)], c)

loadTracks(s, c, list) ==
  LET s1 == [s EXCEPT !.calls[c].list = list] IN
  IF LoadTracksAwaits(list) THEN [s1 EXCEPT !.calls[c].pc = "L_import"]
  ELSE loadTracksFinish(s1, c)

\* faulty variant: addTrack putting the track at the head of the list
addTrackFinishPrepend(s, c) ==
  LET t == s.calls[c].cur IN
  IF t.type = "string" /\ ~existsSync(t) THEN Throw(s, c)
  ELSE Return([s EXCEPT !.tracks = <<t>> \o @], c)

addTrackFinish(s, c) ==
  LET t == s.calls[c].cur IN
  IF t.type = "string" /\ ~existsSync(t) THEN Throw(s, c)
  ELSE Return([s EXCEPT !.tracks = Append(@, t)], c)

addTrack(s, c, t) ==
  LET s1 == [s EXCEPT !.calls[c].cur = t] IN
  IF t.type = "string"
  THEN IF BadExtension(t) THEN Throw(s1, c)
       ELSE [s1 EXCEPT !.calls[c].pc = "A_import"]
  ELSE addTrackFinish(s1, c)

\* playCurrentTrack from the load of the captured track to the suspension
\* at "await this.player.loadFile / loadBuffer"
loadCurrent(s, c) ==
  LET currentTrack == s.calls[c].cur IN
  IF currentTrack.type = "string"
  THEN IF ~Truthy(currentTrack) THEN Return(Finally(s), c)
       ELSE [playerLoad(s, currentTrack) EXCEPT !.calls[c].pc = "P_load",
                                                !.calls[c].cur = NoTrack]
  ELSE IF currentTrack.type = "buffer"
  THEN IF currentTrack.length = 0 THEN Return(Finally(s), c)
       ELSE [playerLoad(s, currentTrack) EXCEPT !.calls[c].pc = "P_load",
                                                !.calls[c].cur = NoTrack]
  ELSE Return(Finally(s), c)

\* faulty variant: playCurrentTrack without its isBusy guard
playCurrentTrackUnguarded(s, c) ==
  IF Len(s.tracks) = 0 THEN Throw(s, c)
  ELSE LET s1 == clearMonitorInterval(
                    [s EXCEPT !.isBusy = TRUE, !.isStopping = FALSE])
           currentTrack == TrackAt(s1, s1.currentTrackIndex)
           s2 == [s1 EXCEPT !.calls[c].cur = currentTrack]
       IN IF ~Truthy(currentTrack) THEN Return(Finally(s2), c)
          ELSE IF s2.isPlaying
          THEN [playerStop(s2) EXCEPT !.calls[c].pc = "P_stop"]
          ELSE loadCurrent(s2, c)

\* playCurrentTrack from its entry to its first suspension
playCurrentTrack(s, c) ==
  IF s.isBusy THEN Skip(s, c)
  ELSE IF Len(s.tracks) = 0 THEN Throw(s, c)
  ELSE LET s1 == clearMonitorInterval(
                    [s EXCEPT !.isBusy = TRUE, !.isStopping = FALSE])
           currentTrack == TrackAt(s1, s1.currentTrackIndex)
           s2 == [s1 EXCEPT !.calls[c].cur = currentTrack]
       IN IF ~Truthy(currentTrack) THEN Return(Finally(s2), c)
          ELSE IF s2.isPlaying
          THEN [playerStop(s2) EXCEPT !.calls[c].pc = "P_stop"]
          ELSE loadCurrent(s2, c)

\* the load has settled: play, or the catch block
playAfterLoad(s, c, ok) ==
  IF ok
  THEN [playerPlay(s) EXCEPT !.calls[c].pc = "P_play"]
  ELSE Throw(Finally([s EXCEPT !.isPlaying = FALSE]), c)

\* player.play() has settled
playAfterPlay(s, c) ==
  Return(Finally(monitorPlayback([s EXCEPT !.isPlaying = TRUE])), c)

firePlaylistEnd(s) ==
  IF s.onPlaylistEnd
  THEN [s EXCEPT !.endCount = IF @ < MaxEnds THEN @ + 1 ELSE @]
  ELSE s

\* faulty variant: nextTrack wrapping to the first track whatever the loop flag
nextTrackBodyAlwaysLoops(s, c) ==
  LET s1 == [s EXCEPT !.currentTrackIndex = @ + 1] IN
  IF s1.currentTrackIndex >= Len(s1.tracks)
  THEN [s1 EXCEPT !.currentTrackIndex = 0, !.calls[c].pc = "N_delay"]
  ELSE [s1 EXCEPT !.calls[c].pc = "N_delay"]

\* nextTrack after the idle wait
nextTrackBody(s, c) ==
  LET s1 == [s EXCEPT !.currentTrackIndex = @ + 1] IN
  IF s1.currentTrackIndex >= Len(s1.tracks)
  THEN IF s1.loop
       THEN [s1 EXCEPT !.currentTrackIndex = 0, !.calls[c].pc = "N_delay"]
       ELSE Return(firePlaylistEnd(
                     clearMonitorInterval([s1 EXCEPT !.isPlaying = FALSE])), c)
  ELSE [s1 EXCEPT !.calls[c].pc = "N_delay"]

previousTrackBody(s, c) ==
  playCurrentTrack(
    [s EXCEPT !.currentTrackIndex = IF @ - 1 > 0 THEN @ - 1 ELSE 0], c)

goToTrackBody(s, c) ==
  playCurrentTrack([s EXCEPT !.currentTrackIndex = s.calls[c].idx], c)

resumeBody(s, c) ==
  IF ~s.isPlaying /\ Len(s.tracks) > 0
  THEN Return(monitorPlayback(
                [playerPlay(s) EXCEPT !.isPlaying = TRUE]), c)
  ELSE Return(s, c)

\* what a call does once waitForIdle has resolved
AfterWait(s, c) ==
  CASE s.calls[c].op \in {"nextTrack", "skip", "auto"} -> nextTrackBody(s, c)
    [] s.calls[c].op = "previousTrack" -> previousTrackBody(s, c)
    [] s.calls[c].op = "goToTrack" -> goToTrackBody(s, c)
    [] OTHER -> resumeBody(s, c)

\* "if (this.isBusy) await this.waitForIdle(...)" followed by the body
WhenIdle(s, c) ==
  IF s.isBusy THEN [s EXCEPT !.calls[c].pc = "wait", !.calls[c].waited = 0]
  ELSE AfterWait(s, c)

\* faulty variant: check() without the timeout branch
waitForIdleCheckNoTimeout(s, c) ==
  IF ~s.isBusy THEN AfterWait(s, c) ELSE s

\* one run of check() inside waitForIdle
waitForIdleCheck(s, c) ==
  IF ~s.isBusy THEN AfterWait(s, c)
  ELSE IF s.calls[c].waited >= PollLimit THEN AfterWait(s, c)
  ELSE [s EXCEPT !.calls[c].waited = @ + 1]

goToTrack(s, c, index) ==
  IF index < 0 \/ index >= Len(s.tracks) THEN Throw(s, c)
  ELSE WhenIdle([s EXCEPT !.calls[c].idx = index], c)

pause(s) == clearMonitorInterval([playerPause(s) EXCEPT !.isPlaying = FALSE])

stop(s) ==
  LET s1 == [s EXCEPT !.isStopping = TRUE]
      s2 == clearMonitorInterval(s1)
      s3 == playerStop(s2)
  IN [s3 EXCEPT !.isPlaying = FALSE, !.currentTrackIndex = 0,
                !.isBusy = FALSE]

RemoveAt(seq, i) == SubSeq(seq, 1, i) \o SubSeq(seq, i + 2, Len(seq))

\* what removeTrack returns: the removed track, null for an index out of range
removeTrackReturns(s, index) ==
  IF index < 0 \/ index >= Len(s.tracks) THEN Null ELSE s.tracks[index + 1]

\* faulty variant: the cursor is not moved back with the tracks behind the
\* removed one
removeTrackKeepingCursor(s, index) ==
  IF index < 0 \/ index >= Len(s.tracks) THEN s
  ELSE LET s1 == [s EXCEPT !.tracks = RemoveAt(@, index)] IN
       IF index = s1.currentTrackIndex /\ s1.isPlaying
       THEN stop(s1)
       ELSE s1

removeTrack(s, index) ==
  IF index < 0 \/ index >= Len(s.tracks) THEN s
  ELSE LET s1 == [s EXCEPT !.tracks = RemoveAt(@, index)] IN
       IF index < s1.currentTrackIndex
       THEN [s1 EXCEPT !.currentTrackIndex = @ - 1]
       ELSE IF index = s1.currentTrackIndex /\ s1.isPlaying
       THEN LET s2 == stop(s1) IN
            IF Len(s2.tracks) > 0 /\ s2.currentTrackIndex >= Len(s2.tracks)
            THEN [s2 EXCEPT !.currentTrackIndex =
                     IF Len(s2.tracks) - 1 > 0 THEN Len(s2.tracks) - 1 ELSE 0]
            ELSE s2
       ELSE s1

setLoop(s, enabled) == [s EXCEPT !.loop = enabled]

disposeFinish(s, c) ==
  Return([clearMonitorInterval(s) EXCEPT !.tracks = <<>>,
                                         !.onPlaylistEnd = FALSE,
                                         !.disposed = TRUE], c)

\* the callback of the monitor's setInterval, when it finds the track over
monitorTick(s) ==
  [clearMonitorInterval(s) EXCEPT !.isPlaying = FALSE, !.immediates = @ + 1]

\* the tick does something only in this case
TickObservesEnd(s) ==
  s.monitorInterval /\ ~s.isStopping /\ ~s.devPlaying /\ s.isPlaying

\* faulty variant: the deferred callback without its isStopping test
immediateCallbackUnchecked(s, c) ==
  WhenIdle([s EXCEPT !.immediates = @ - 1,
                     !.calls[c] = [IdleCall EXCEPT !.op = "auto"]], c)

\* the callback handed to setImmediate by the tick
immediateCallback(s, c) ==
  LET s1 == [s EXCEPT !.immediates = @ - 1] IN
  IF ~s1.isStopping
  THEN WhenIdle([s1 EXCEPT !.calls[c] = [IdleCall EXCEPT !.op = "auto"]], c)
  ELSE s1

\* ------------------------------------------------------------------------
\* Inputs of the public calls
\* ------------------------------------------------------------------------
FileA == File(<<"a", "mp3">>)
Clip(n) == Buf(n, 1)

\* lists handed to loadTracks by the playlist's callers
LoadInputs == { <<FileA, Clip(1)>>, <<Clip(1)>> }
\* tracks handed to addTrack
AddInputs == { FileA, Clip(1), File(<<"c", "txt">>) }
\* indices handed to goToTrack and removeTrack
IndexInputs == -1..2

\* ------------------------------------------------------------------------
\* Actions: a public call is made (the code up to its first suspension)
\* ------------------------------------------------------------------------
\* a slot whose call is over is free for the next call
InFlight(c) == calls[c].pc \notin {"idle", "done", "skipped", "threw"}

\* public calls take the lowest free slot
Free(c) ==
  /\ c \in PublicSlots
  /\ ~InFlight(c)
  /\ \A d \in PublicSlots : d < c => InFlight(d)

\* the public calls that start or move playback
PlaybackCalls == {"playCurrentTrack", "nextTrack", "previousTrack",
                  "goToTrack", "resume", "skip"}

Begin(c, op) ==
  [Cur EXCEPT !.calls[c] = [IdleCall EXCEPT !.op = op],
              !.stopped = IF op \in PlaybackCalls THEN FALSE ELSE @,
              !.disposed = FALSE]

CallLoadTracksOf(list) ==
  \E c \in PublicSlots :
    Free(c) /\ Apply(loadTracks(Begin(c, "loadTracks"), c, list))

CallLoadTracks == \E list \in LoadInputs : CallLoadTracksOf(list)

CallAddTrack ==
  \E c \in PublicSlots, t \in AddInputs :
    /\ Free(c)
    /\ Len(tracks) < MaxLen
    /\ Apply(addTrack(Begin(c, "addTrack"), c, t))

CallPlayCurrentTrack ==
  \E c \in PublicSlots :
    Free(c) /\ Apply(playCurrentTrack(Begin(c, "playCurrentTrack"), c))

CallNextTrack ==
  \E c \in PublicSlots :
    /\ Free(c)
    /\ currentTrackIndex < MaxIndex
    /\ Apply(WhenIdle(Begin(c, "nextTrack"), c))

CallPreviousTrack ==
  \E c \in PublicSlots :
    Free(c) /\ Apply(WhenIdle(Begin(c, "previousTrack"), c))

CallGoToTrack ==
  \E c \in PublicSlots, index \in IndexInputs :
    Free(c) /\ Apply(goToTrack(Begin(c, "goToTrack"), c, index))

CallResume ==
  \E c \in PublicSlots : Free(c) /\ Apply(WhenIdle(Begin(c, "resume"), c))

CallSkip ==
  \E c \in PublicSlots :
    Free(c) /\ Apply([stop(Begin(c, "skip")) EXCEPT
                        !.calls[c].pc = "S_stop",
                        !.calls[c].idx = currentTrackIndex])

CallDispose ==
  \E c \in PublicSlots :
    Free(c) /\ Apply([stop(Begin(c, "dispose")) EXCEPT !.calls[c].pc = "D_stop"])

\* the calls without a suspension point
CallPause == Cur # pause(Cur) /\ Apply(pause(Cur))

CallStop ==
  LET t == [stop(Cur) EXCEPT !.stopped = TRUE]
  IN Cur # t /\ Apply(t)

CallRemoveTrack ==
  \E index \in IndexInputs :
    Cur # removeTrack(Cur, index) /\ Apply(removeTrack(Cur, index))

CallSetLoop ==
  \E enabled \in BOOLEAN :
    Cur # setLoop(Cur, enabled) /\ Apply(setLoop(Cur, enabled))

\* on("playlistEnd", cb) and removeListener("playlistEnd")
CallOn ==
  ~onPlaylistEnd /\ Apply([Cur EXCEPT !.onPlaylistEnd = TRUE, !.disposed = FALSE])

CallRemoveListener ==
  onPlaylistEnd /\ Apply([Cur EXCEPT !.onPlaylistEnd = FALSE])

\* ------------------------------------------------------------------------
\* Actions: a suspended call resumes
\* ------------------------------------------------------------------------
LoadTracksResumeOf(list) ==
  \E c \in Slots :
    /\ calls[c].pc = "L_import"
    /\ calls[c].list = list
    /\ Apply(loadTracksFinish(Cur, c))

LoadTracksResume == \E c \in Slots : LoadTracksResumeOf(calls[c].list)

AddTrackResume ==
  \E c \in Slots : calls[c].pc = "A_import" /\ Apply(addTrackFinish(Cur, c))

\* A timer callback (setTimeout, setInterval) runs in the timers phase of the
\* event loop, a setImmediate callback in the check phase of the same turn:
\* no timer fires between a tick and the callback it handed to setImmediate.
TimersMayRun == immediates = 0

\* after "await this.player.stop()" and the TRANSITION_DELAY timer
PlayResumeAfterStop ==
  \E c \in Slots :
    TimersMayRun /\ calls[c].pc = "P_stop" /\ Apply(loadCurrent(Cur, c))

\* the device has loaded the track, or has failed to
PlayResumeAfterLoad ==
  \E c \in Slots, ok \in BOOLEAN :
    calls[c].pc = "P_load" /\ Apply(playAfterLoad(Cur, c, ok))

PlayResumeAfterPlay ==
  \E c \in Slots : calls[c].pc = "P_play" /\ Apply(playAfterPlay(Cur, c))

\* the NEXT_TRACK_DELAY timer of nextTrack
NextTrackDelayOver(c) ==
  TimersMayRun /\ calls[c].pc = "N_delay" /\ Apply(playCurrentTrack(Cur, c))

NextTrackResume == \E c \in Slots : NextTrackDelayOver(c)

\* the 50 ms timer of waitForIdle
WaitForIdlePoll(c) ==
  TimersMayRun /\ calls[c].pc = "wait" /\ Apply(waitForIdleCheck(Cur, c))

WaitForIdleResume == \E c \in Slots : WaitForIdlePoll(c)

\* skip(): after "await this.stop()"
SkipResume ==
  \E c \in Slots : calls[c].pc = "S_stop" /\ Apply(WhenIdle(Cur, c))

\* dispose(): after "await this.stop()"
DisposeResume ==
  \E c \in Slots : calls[c].pc = "D_stop" /\ Apply(disposeFinish(Cur, c))

\* ------------------------------------------------------------------------
\* Actions: timers and the device
\* ------------------------------------------------------------------------
\* (the tick waits for a free slot for the nextTrack call it will cause)
MonitorTick ==
  /\ TimersMayRun
  /\ currentTrackIndex < MaxIndex
  /\ \E c \in AutoSlots : ~InFlight(c)
  /\ TickObservesEnd(Cur)
  /\ Apply(monitorTick(Cur))

ImmediateRun ==
  /\ immediates > 0
  /\ \E c \in AutoSlots :
       /\ ~InFlight(c)
       /\ \A d \in AutoSlots : d < c => InFlight(d)
       /\ Apply(immediateCallback(Cur, c))

\* the device reaches the end of the sound
DeviceFinish == devPlaying /\ Apply([Cur EXCEPT !.devPlaying = FALSE])

Resumes ==
  \/ LoadTracksResume
  \/ AddTrackResume
  \/ PlayResumeAfterStop
  \/ PlayResumeAfterLoad
  \/ PlayResumeAfterPlay
  \/ NextTrackResume
  \/ WaitForIdleResume
  \/ SkipResume
  \/ DisposeResume

Next ==
  \/ CallLoadTracks
  \/ CallAddTrack
  \/ CallPlayCurrentTrack
  \/ CallNextTrack
  \/ CallPreviousTrack
  \/ CallGoToTrack
  \/ CallResume
  \/ CallSkip
  \/ CallDispose
  \/ CallPause
  \/ CallStop
  \/ CallRemoveTrack
  \/ CallSetLoop
  \/ Resumes
  \/ MonitorTick
  \/ ImmediateRun
  \/ DeviceFinish

Spec == Init /\ [][Next]_vars

\* ------------------------------------------------------------------------
\* The TTS action (TTSPlugin.ts:82-115): the handler registered under
\* ACTIONS.TTS, dispatched once per matching event.  Its playlist is used by
\* nothing else: no manual control calls, loop disabled.
\* ------------------------------------------------------------------------
\* the buffer that ttsService.synthesize returns for the n-th clip
Synthesized(n) == Buf(n, 1)

\* after "await this.ttsService.synthesize(...)": the clip is appended to
\* audioFiles and the playlist is reloaded with all the buffers; loadTracks
\* has no suspension point for buffers, the handler's await of it has
ttsAfterSynthesize(s, c) ==
  LET s1 == [s EXCEPT !.audioFiles = Append(@, Synthesized(Len(@) + 1))]
      s2 == loadTracks(s1, c, s1.audioFiles)
  IN [s2 EXCEPT !.calls[c].op = "tts", !.calls[c].pc = "T_loaded"]

\* after "await this.playlist.loadTracks(...)"
ttsAfterLoadTracks(s, c) ==
  IF s.isPlaying THEN Return(s, c) ELSE playCurrentTrack(s, c)

\* an event dispatches the TTS action; the handler runs up to its first await
TTSDispatch ==
  \E c \in PublicSlots :
    /\ Free(c)
    /\ Len(audioFiles)
         + Cardinality({d \in Slots : calls[d].pc = "T_synth"}) < MaxClips
    /\ Apply([Begin(c, "tts") EXCEPT !.calls[c].pc = "T_synth"])

TTSResumeAfterSynthesize ==
  \E c \in Slots :
    calls[c].pc = "T_synth" /\ Apply(ttsAfterSynthesize(Cur, c))

TTSResumeAfterLoadTracks ==
  \E c \in Slots :
    calls[c].pc = "T_loaded" /\ Apply(ttsAfterLoadTracks(Cur, c))

NextTTS ==
  \/ TTSDispatch
  \/ TTSResumeAfterSynthesize
  \/ TTSResumeAfterLoadTracks
  \/ PlayResumeAfterStop
  \/ PlayResumeAfterLoad
  \/ PlayResumeAfterPlay
  \/ NextTrackResume
  \/ WaitForIdleResume
  \/ MonitorTick
  \/ ImmediateRun
  \/ DeviceFinish

SpecTTS == Init /\ [][NextTTS]_vars

\* ------------------------------------------------------------------------
\* Unattended playback: a playlist is set up (loadTracks, setLoop, on /
\* removeListener), playCurrentTrack starts it, and from then on only the
\* monitor, the device and the continuations of the calls run.
\* ------------------------------------------------------------------------
\* lists handed to loadTracks; Buf(3, 0) is an empty buffer
AutoInputs ==
  { <<Clip(1)>>, <<Clip(1), Clip(2)>>, <<Clip(1), Buf(3, 0)>>,
    <<FileA, Clip(1)>> }

\* nothing has been sent to the device yet and no call is pending
BeforePlayback == devLoaded = NoTrack /\ \A c \in Slots : ~InFlight(c)

SetUpLoadTracks ==
  \E list \in AutoInputs : BeforePlayback /\ CallLoadTracksOf(list)

SetUpLoop == BeforePlayback /\ CallSetLoop

SetUpOn == BeforePlayback /\ CallOn

SetUpRemoveListener == BeforePlayback /\ CallRemoveListener

StartPlayback == BeforePlayback /\ CallPlayCurrentTrack

NextAuto ==
  \/ SetUpLoadTracks
  \/ SetUpLoop
  \/ SetUpOn
  \/ SetUpRemoveListener
  \/ StartPlayback
  \/ LoadTracksResume
  \/ PlayResumeAfterLoad
  \/ PlayResumeAfterPlay
  \/ NextTrackResume
  \/ MonitorTick
  \/ ImmediateRun
  \/ DeviceFinish

\* the event loop runs every callback that is due, the device settles every
\* command, and a sound that plays comes to its end
FairAuto ==
  /\ WF_vars(LoadTracksResume)
  /\ WF_vars(PlayResumeAfterLoad)
  /\ WF_vars(PlayResumeAfterPlay)
  /\ WF_vars(NextTrackResume)
  /\ WF_vars(MonitorTick)
  /\ WF_vars(ImmediateRun)
  /\ WF_vars(DeviceFinish)

SpecAuto == Init /\ [][NextAuto]_vars /\ FairAuto

\* ------------------------------------------------------------------------
\* The action registry and the plugins that register handlers in it.  The
\* plugin manager loads the plugins in an order of its own; each onLoad
\* awaits before it registers.
\* ------------------------------------------------------------------------
\* ActionRegistry.register(name, handler): the name now maps to handler
register(s, n, h) ==
  [s EXCEPT !.registry[n] = h, !.regLog = Append(@, h)]

\* ActionRegistry.get(name)
get(s, n) == s.registry[n]

\* a handler is entered
run(s, h) ==
  [s EXCEPT !.runLog = IF Len(@) < MaxRuns THEN Append(@, h) ELSE @]

\* the handler registered first under the name
FirstRegistered(s, n) ==
  LET idx == {i \in 1..Len(s.regLog) : s.regLog[i].name = n} IN
  IF idx = {} THEN NoHandler
  ELSE s.regLog[CHOOSE i \in idx : \A j \in idx : i <= j]

\* faulty variant: callAction keeping to the handler that was registered first
callActionFirst(s, n) ==
  IF FirstRegistered(s, n) = NoHandler THEN s ELSE run(s, FirstRegistered(s, n))

\* EvaluatorPlugin.callAction: looks the handler up and calls it; throws when
\* there is none
callAction(s, n) ==
  IF get(s, n) = NoHandler THEN s ELSE run(s, get(s, n))

\* the decisions the evaluate handler returns
Decisions == {"tts_direct", "ai_respond", "ignore"}

\* a handler runs up to its first suspension; the evaluate_and_speak handler
\* of EvaluatorPlugin calls the evaluate action and awaits its decision
enter(s, h, decision) ==
  IF h = Handler("evaluator-service", "evaluate_and_speak")
  THEN [callAction(run(s, h), "evaluate") EXCEPT
          !.pendingDecision =
             IF get(s, "evaluate") = Handler("evaluator-service", "evaluate")
             THEN decision ELSE "none"]
  ELSE run(s, h)

\* the plugin manager calls onLoad, which runs up to its first await
PluginLoad(p) ==
  /\ plugins[p] = "registered"
  /\ Apply([Cur EXCEPT !.plugins[p] = "loading"])

\* AIPlugin.onLoad after "await initializeAI()"
AIPluginRegisters ==
  /\ plugins["ai-service"] = "loading"
  /\ Apply([register(Cur, "ai_respond", Handler("ai-service", "ai_respond"))
              EXCEPT !.plugins["ai-service"] = "loaded"])

evaluatorRegisters(s) ==
  LET p == "evaluator-service"
      s1 == register(s, "datetime", Handler(p, "datetime"))
      s2 == register(s1, "evaluate", Handler(p, "evaluate"))
      s3 == register(s2, "tts_direct", Handler(p, "tts_direct"))
      s4 == register(s3, "ai_respond", Handler(p, "ai_respond"))
  IN register(s4, "evaluate_and_speak", Handler(p, "evaluate_and_speak"))

\* EvaluatorPlugin.onLoad after "await this.getOrCreateConfig(...)"
EvaluatorPluginRegisters ==
  /\ plugins["evaluator-service"] = "loading"
  /\ Apply([evaluatorRegisters(Cur) EXCEPT
              !.plugins["evaluator-service"] = "loaded"])

\* TTSPlugin.onLoad after its awaits
TTSPluginRegisters ==
  /\ plugins["tts-service"] = "loading"
  /\ Apply([register(register(Cur, "TTS", Handler("tts-service", "TTS")),
                      "lastcomment", Handler("tts-service", "lastcomment"))
              EXCEPT !.plugins["tts-service"] = "loaded"])

\* a rule of the engine names the action n: the engine looks n up in the
\* registry and calls the handler
DispatchAction(n) ==
  \E decision \in Decisions :
    /\ get(Cur, n) # NoHandler
    /\ pendingDecision = "none"
    /\ Len(runLog) + 3 <= MaxRuns
    /\ Apply(enter(Cur, get(Cur, n), decision))

\* the evaluate_and_speak handler resumes with the decision n and calls the
\* action of that name
CallActionResume(n) ==
  /\ pendingDecision = n
  /\ n # "none"
  /\ Apply([(IF n = "ignore" THEN Cur ELSE callAction(Cur, n)) EXCEPT
              !.pendingDecision = "none"])

NextRegistry ==
  \/ \E p \in PluginNames : PluginLoad(p)
  \/ AIPluginRegisters
  \/ EvaluatorPluginRegisters
  \/ TTSPluginRegisters
  \/ \E n \in ActionNames : DispatchAction(n)
  \/ \E n \in Decisions : CallActionResume(n)

SpecRegistry == Init /\ [][NextRegistry]_vars

\* ------------------------------------------------------------------------
\* Playback and navigation: the calls that wait for isBusy, the call that
\* holds it, the monitor and the device.  The timers of the event loop fire
\* when they are due; nothing is assumed of the device, whose commands may
\* never settle, so that isBusy may stay set for ever.
\* ------------------------------------------------------------------------
NextWait ==
  \/ CallLoadTracks
  \/ CallPlayCurrentTrack
  \/ CallNextTrack
  \/ CallPreviousTrack
  \/ CallGoToTrack
  \/ CallResume
  \/ LoadTracksResume
  \/ PlayResumeAfterStop
  \/ PlayResumeAfterLoad
  \/ PlayResumeAfterPlay
  \/ NextTrackResume
  \/ WaitForIdleResume
  \/ MonitorTick
  \/ ImmediateRun
  \/ DeviceFinish

FairWait ==
  /\ \A c \in Slots : SF_vars(WaitForIdlePoll(c))
  /\ \A c \in Slots : SF_vars(NextTrackDelayOver(c))
  /\ WF_vars(ImmediateRun)

SpecWait == Init /\ [][NextWait]_vars /\ FairWait

\* ------------------------------------------------------------------------
\* loadTracks on its own: every list of up to MaxList entries drawn from one
\* entry of each kind
\* ------------------------------------------------------------------------
TrackUniverse ==
  { FileA,                      \* supported extension, file present
    File(<<"b", "MP3">>),       \* upper-case extension, file present
    File(<<"c", "txt">>),       \* unsupported extension, file present
    File(<<"d", "mp3">>),       \* supported extension, no such file
    File(<<"wav">>),            \* a present file named "wav", no "."
    Clip(1),                    \* non-empty buffer
    Buf(2, 0),                  \* empty buffer
    Other }                     \* neither string nor Buffer

ListInputs == UNION { [1..n -> TrackUniverse] : n \in 0..MaxList }

LoadAnyList == \E list \in ListInputs : CallLoadTracksOf(list)

NextLoad ==
  \/ LoadAnyList
  \/ LoadTracksResume

SpecLoad == Init /\ [][NextLoad]_vars

\* ------------------------------------------------------------------------
\* The rule engine (RuleEngine of trigger_system) and its callers: the
\* entry points subscribe it to the event bus and start the rules watcher.
\* The engine's own code is not part of the sources; it follows the
\* algorithm of its documentation: snapshot, filter, evaluate in store
\* order, run the actions of each satisfied rule one after the other.
\* ------------------------------------------------------------------------
\* HelperRegistry.register (RegisterPlugin.ts:22-25)
registerHelper(s, n) == [s EXCEPT !.helpers = @ \cup {n}]

\* HelperRegistry.getHelpers: a copy of the map (RegisterPlugin.ts:27-29)
getHelpers(s) == s.helpers

\* engine.updateRules(newRules): the active set is replaced as a whole
updateRules(s, loaded) == [s EXCEPT !.rules = loaded]

\* faulty variant: the active set is read anew at every step
RulesSeenByLive(s, d) == s.rules

\* the rule set a dispatch works on: the one it fetched when it started
RulesSeenBy(s, d) == s.dispatches[d].snapshot

\* step 2: the rules of the set bound to the event and enabled, in store
\* order
Matching(set, eventName) ==
  SelectSeq(set, LAMBDA r : RuleDefs[r].eventName = eventName
                            /\ RuleDefs[r].enabled)

\* faulty variant: a call of a missing helper counts as true
evaluateLenient(c, hs) ==
  CASE c.kind = "absent" -> "true"
    [] c.kind = "false" -> "false"
    [] OTHER -> "true"

\* the value of a condition in the context { event, data, helpers }: a
\* condition that calls a helper missing from the map fails
evaluate(c, hs) ==
  CASE c.kind = "absent" -> "true"
    [] c.kind = "false" -> "false"
    [] OTHER -> IF c.helper \in hs THEN "true" ELSE "fails"

Entry(r, i, phase) == [rule |-> r, idx |-> i, phase |-> phase]
Logged(s, d, e) == [s EXCEPT !.dispatches[d].log = Append(@, e)]

\* the dispatch calls the handler of action i of rule r and awaits it
startAction(s, d, r, i) ==
  [Logged(s, d, Entry(r, i, "start")) EXCEPT
     !.dispatches[d].ai = i, !.dispatches[d].pc = "awaiting"]

\* faulty variant: the actions run whatever the condition yields
RECURSIVE evaluateFromEager(_, _, _)
evaluateFromEager(s, d, k) ==
  LET m == Matching(RulesSeenBy(s, d), s.dispatches[d].event)
  IN IF k > Len(m)
     THEN [s EXCEPT !.dispatches[d].pc = "completed", !.dispatches[d].ri = k]
     ELSE LET r == m[k]
              v == evaluate(RuleDefs[r].condition, s.dispatches[d].helpers)
              t == [Logged(s, d, Entry(r, 0, v)) EXCEPT !.dispatches[d].ri = k]
          IN IF RuleDefs[r].actions # <<>>
             THEN startAction(t, d, r, 1)
             ELSE evaluateFromEager(t, d, k + 1)

\* steps 3 and 4 from matching rule number k on, up to the next await: a
\* rule whose condition is false, or fails, is passed over
RECURSIVE evaluateFrom(_, _, _)
evaluateFrom(s, d, k) ==
  LET m == Matching(RulesSeenBy(s, d), s.dispatches[d].event)
  IN IF k > Len(m)
     THEN [s EXCEPT !.dispatches[d].pc = "completed", !.dispatches[d].ri = k]
     ELSE LET r == m[k]
              v == evaluate(RuleDefs[r].condition, s.dispatches[d].helpers)
              t == [Logged(s, d, Entry(r, 0, v)) EXCEPT !.dispatches[d].ri = k]
          IN IF v = "true" /\ RuleDefs[r].actions # <<>>
             THEN startAction(t, d, r, 1)
             ELSE evaluateFrom(t, d, k + 1)

\* faulty variant: a failed action ends the dispatch
actionSettledAborting(s, d, ok) ==
  LET x == s.dispatches[d]
      r == x.log[Len(x.log)].rule
      t == Logged(s, d, Entry(r, x.ai, IF ok THEN "ok" ELSE "fail"))
  IN IF ~ok
     THEN [t EXCEPT !.dispatches[d].pc = "completed",
                    !.dispatches[d].threw = TRUE]
     ELSE IF x.ai < Len(RuleDefs[r].actions)
          THEN startAction(t, d, r, x.ai + 1)
          ELSE evaluateFrom(t, d, x.ri + 1)

\* the awaited handler settled, ok or not: a failure is caught and logged,
\* and the dispatch goes on with the next action, or the next rule
actionSettled(s, d, ok) ==
  LET x == s.dispatches[d]
      r == x.log[Len(x.log)].rule
      t == Logged(s, d, Entry(r, x.ai, IF ok THEN "ok" ELSE "fail"))
  IN IF x.ai < Len(RuleDefs[r].actions)
     THEN startAction(t, d, r, x.ai + 1)
     ELSE evaluateFrom(t, d, x.ri + 1)

\* a slot of the model is free when it holds no dispatch in flight
FreeDispatch(s, d) == s.dispatches[d].pc \in {"idle", "completed"}
FirstFree(s) ==
  CHOOSE d \in 1..MaxDispatch :
    /\ FreeDispatch(s, d)
    /\ \A e \in 1..MaxDispatch : FreeDispatch(s, e) => d <= e

\* engine.processEventSimple(eventName, data, helpers), up to its first
\* await: step 1 fetches the rule snapshot
processEventSimple(s, eventName, data, hs) ==
  LET d == FirstFree(s)
      t == [s EXCEPT !.dispatches[d] =
              [IdleDispatch EXCEPT !.event = eventName, !.helpers = hs,
                                   !.snapshot = s.rules,
                                   !.registeredAtStart = s.helpers,
                                   !.loadedAtStart = s.rulesLoaded,
                                   !.newRulesAtStart = s.newRules]]
  IN evaluateFrom(t, d, 1)

\* main() up to its return: the plugins are loaded (the onLoad of
\* ActionRegistryPlugin and of mcplugin register their helpers,
\* RegisterPlugin.ts:49-62, mcplugin.ts:19-39), the helper map is taken
\* (part_019:15-18, not in main.ts), the bus is subscribed and the watcher
\* started
main(s, file) ==
  LET loaded == [s EXCEPT !.helpers = @ \cup OnLoadHelpers]
  IN [loaded EXCEPT !.mainFile = file,
                    !.pluginHelpers = IF file = "part_019"
                                      THEN getHelpers(loaded) ELSE {},
                    !.watcherPending = TRUE]

\* the platforms main subscribed: manager.on('tiktok', ...) in main.ts:13,
\* Object.values(PLATFORMS).forEach in part_019:21-29
Subscribed(s, platform) ==
  CASE s.mainFile = "main.ts" -> platform = "tiktok"
    [] s.mainFile = "part_019" -> platform \in PLATFORMS
    [] OTHER -> FALSE

\* the callback main passed to manager.on (main.ts:13-16, part_019:22-28)
onPlatformEvent(s, eventName, data) ==
  IF s.mainFile = "part_019" /\ (eventName = "" \/ data = "undefined")
  THEN s
  ELSE processEventSimple(s, eventName, data, s.pluginHelpers)

\* context.emit(platform, { eventName, data }): the bus calls the
\* subscribers of the platform (tikfinity.ts:80, saveEvents.ts:108,
\* inputPlugin.ts:64)
emit(s, platform, eventName, data) ==
  LET t == IF Subscribed(s, platform)
           THEN onPlatformEvent(s, eventName, data) ELSE s
      handed == IF t.dispatches = s.dispatches THEN 0 ELSE 1
  IN [t EXCEPT !.emitted = [eventName |-> eventName, data |-> data,
                            handed |-> handed]]

\* BasePluginManager.emulateEvent from the point where getPlugin has
\* resolved (plugin.ts:31-39)
emulateEvent(s, eventName, data) ==
  processEventSimple(s, eventName, data, getHelpers(s))

\* what TriggerLoader hands to the callback: the rules of all the files
RECURSIVE LoadFrom(_, _)
LoadFrom(files, k) ==
  IF k > Len(RuleFileNames) THEN <<>>
  ELSE (IF RuleFileNames[k] \in files THEN RulesOf(RuleFileNames[k])
        ELSE <<>>) \o LoadFrom(files, k + 1)
Load(files) == LoadFrom(files, 1)

\* faulty variant: the new rules are not handed to the engine
watchRulesCallbackKeeping(s, loaded) ==
  [s EXCEPT !.rulesLoaded = TRUE, !.newRules = loaded]

\* the callback main passed to TriggerLoader.watchRules (main.ts:20-36,
\* part_019:43-53)
watchRulesCallback(s, loaded) ==
  [updateRules(s, loaded) EXCEPT !.rulesLoaded = TRUE, !.newRules = loaded]

MainFiles == {"main.ts", "part_019"}

MainRuns(file) ==
  /\ mainFile = "none"
  /\ Apply(main(Cur, file))

RuleFileAdded(r) ==
  /\ r \notin ruleFiles
  /\ Apply([Cur EXCEPT !.ruleFiles = @ \cup {r},
                       !.watcherPending = @ \/ mainFile # "none"])

RuleFileRemoved(r) ==
  /\ r \in ruleFiles
  /\ Apply([Cur EXCEPT !.ruleFiles = @ \ {r},
                       !.watcherPending = @ \/ mainFile # "none"])

WatcherCallback ==
  /\ watcherPending
  /\ Apply([watchRulesCallback(Cur, Load(ruleFiles)) EXCEPT
              !.watcherPending = FALSE])

CallRegisterHelper(n) ==
  /\ n \notin helpers
  /\ Apply(registerHelper(Cur, n))

SomeFree == \E d \in 1..MaxDispatch : FreeDispatch(Cur, d)

\* a loaded plugin emits; events emitted before main has subscribed are
\* left out
Emit(platform, eventName, data) ==
  /\ mainFile # "none"
  /\ SomeFree
  /\ Apply(emit(Cur, platform, eventName, data))

CallEmulateEvent(eventName) ==
  /\ SomeFree
  /\ Apply(emulateEvent(Cur, eventName, "object"))

ActionSettles(d, ok) ==
  /\ dispatches[d].pc = "awaiting"
  /\ Apply(actionSettled(Cur, d, ok))

Files == {RuleFileNames[k] : k \in 1..Len(RuleFileNames)}

\* a platform adapter emits an event of the platform tiktok
\* (tikfinity.ts:80)
EmitTikTok(eventName) == Emit("tiktok", eventName, "object")

NextEngine ==
  \/ \E file \in MainFiles : MainRuns(file)
  \/ \E f \in Files : RuleFileAdded(f)
  \/ \E f \in Files : RuleFileRemoved(f)
  \/ WatcherCallback
  \/ \E eventName \in EventNames \ {""} : EmitTikTok(eventName)
  \/ \E d \in 1..MaxDispatch, ok \in BOOLEAN : ActionSettles(d, ok)

SpecEngine == Init /\ [][NextEngine]_vars

\* the event bus and the helper registry, with the rules of chat.yaml
NextBus ==
  \/ \E file \in MainFiles : MainRuns(file)
  \/ RuleFileAdded("chat.yaml")
  \/ WatcherCallback
  \/ \E n \in LateHelpers : CallRegisterHelper(n)
  \/ \E platform \in PlatformNames, eventName \in EventNames,
        data \in DataValues : Emit(platform, eventName, data)
  \/ \E eventName \in EventNames : CallEmulateEvent(eventName)
  \/ \E d \in 1..MaxDispatch, ok \in BOOLEAN : ActionSettles(d, ok)

SpecBus == Init /\ [][NextBus]_vars

\* ------------------------------------------------------------------------
\* Properties
\* ------------------------------------------------------------------------
\* a call is inside playCurrentTrack, past the isBusy check: it has issued or
\* is about to issue stop / load / play commands to the device
InSection(c) == calls[c].pc \in {"P_stop", "P_load", "P_play"}

PlaylistFields ==
  <<tracks, currentTrackIndex, isPlaying, loop, isBusy, monitorInterval,
    isStopping, onPlaylistEnd, immediates>>
Device == <<devPlaying, devLoaded, playLog>>

C2_OneInSection == Cardinality({c \in Slots : InSection(c)}) <= 1

\* C3: whenever isPlaying is true, 0 <= currentTrackIndex < tracks.length.
C3_CursorInRangeWhilePlaying ==
  isPlaying => (0 <= currentTrackIndex /\ currentTrackIndex < Len(tracks))

\* C4: stop() leaves isStopping set, isPlaying false and the cursor at 0 (and
\* the monitor timer cleared); while isStopping is true the monitor tick
\* schedules no callback and the callback it handed to setImmediate earlier
\* does not call nextTrack: it starts no call and does not move the cursor.
C4_StopContract ==
  [][/\ CallStop =>
          (isStopping' /\ ~isPlaying' /\ currentTrackIndex' = 0
           /\ ~monitorInterval')
     /\ isStopping => immediates' <= immediates
     /\ (isStopping /\ ImmediateRun) =>
          (calls' = calls /\ currentTrackIndex' = currentTrackIndex
           /\ isPlaying' = isPlaying /\ UNCHANGED Device)]_vars

\* stop() was called between a tick and the callback the tick deferred
C4_Witness ==
  isStopping /\ immediates = 1 /\ ~isPlaying /\ currentTrackIndex = 0

IsPrefix(a, b) == Len(a) <= Len(b) /\ SubSeq(b, 1, Len(a)) = a

\* C9 as claimed: apart from removeTrack and dispose, every step keeps the
\* tracks already in the playlist, in place (it can only append).
C9_OnlyRemoveOrDispose ==
  [][CallRemoveTrack \/ DisposeResume \/ IsPrefix(tracks, tracks')]_vars

\* C9 amended: the tracks already in the playlist are removed, replaced or
\* reordered only by removeTrack, dispose and loadTracks (which replaces the
\* whole list); addTrack only appends and playback, navigation, pause, resume
\* and stop leave the list alone.
C9_OnlyLoadRemoveOrDispose ==
  [][\/ CallRemoveTrack \/ DisposeResume
     \/ CallLoadTracks \/ LoadTracksResume
     \/ IsPrefix(tracks, tracks')]_vars

\* two enqueued tracks, the second one reached by playback or navigation
C9_Witness == Len(tracks) = 2 /\ isPlaying /\ currentTrackIndex = 1

\* C5: the clips are started on the device in the order in which they were
\* appended, each one once: the play() commands the device has received are
\* an initial part of the appended clips.
C5_ClipsStartOnceInOrder == IsPrefix(playLog, audioFiles)

\* the monitor tick has just observed the end of the track at index i
TickedAt(i) == immediates = 1 /\ ~isStopping /\ currentTrackIndex = i

\* the nextTrack call started by the monitor has told the device to play the
\* track at index j
StartedAt(j) ==
  \E c \in AutoSlots :
    /\ calls[c].pc = "P_play"
    /\ currentTrackIndex = j
    /\ devPlaying
    /\ devLoaded = TrackAt(Cur, j)

\* the device has rejected the load of the track at index j
LoadFailedAt(j) ==
  \E c \in AutoSlots :
    calls[c].pc = "threw" /\ currentTrackIndex = j /\ ~isPlaying

\* playback has come to rest on the track at index j without starting it
StalledAt(j) ==
  /\ currentTrackIndex = j
  /\ ~isPlaying /\ ~isBusy /\ ~monitorInterval
  /\ \A c \in Slots : ~InFlight(c)
  /\ \E c \in AutoSlots : calls[c].pc = "done"

\* a track that playCurrentTrack hands to the device
Playable(t) ==
  \/ t.type = "string" /\ Truthy(t)
  \/ t.type = "buffer" /\ t.length > 0

\* the cursor is past the last track
PastTheEnd == Len(tracks) > 0 /\ currentTrackIndex >= Len(tracks)

SupportedFormats == {"mp3", "wav", "flac", "ogg"}

\* a path with a supported extension (in any letter case) that names an
\* existing file; the extension is the text after the last "."
ValidPath(t) ==
  /\ t.type = "string"
  /\ toLowerCase(t.segs[Len(t.segs)]) \in SupportedFormats
  /\ t.segs \in ExistingFiles

\* a loadTracks(list) call has suspended holding list, or has run to its end
\* leaving kept in tracks
LoadTracksYields(list, kept) ==
  (CallLoadTracksOf(list) \/ LoadTracksResumeOf(list)) =>
    /\ \A c \in Slots : calls'[c].pc # "threw"
    /\ \/ \E c \in Slots :
            /\ calls'[c].pc = "L_import"
            /\ calls'[c].list = list
            /\ tracks' = tracks
       \/ /\ tracks' = kept
          /\ \E c \in Slots : calls'[c].pc = "done"

\* validity as claimed: a valid path or a non-empty buffer
ValidAsClaimed(t) == ValidPath(t) \/ (t.type = "buffer" /\ t.length > 0)

\* validity as coded: a valid path or any buffer
ValidAsCoded(t) == ValidPath(t) \/ t.type = "buffer"

\* C7 as claimed: loadTracks(list) never throws and leaves in tracks, in
\* order, exactly the valid paths and the non-empty buffers of list.
C7_KeepsValidPathsAndNonEmptyBuffers ==
  [][\A list \in ListInputs : LoadTracksYields(list, SelectSeq(list, ValidAsClaimed))]_vars

\* C7 amended: loadTracks(list) never throws and leaves in tracks, in order,
\* exactly the valid paths and all the buffers of list, empty ones included;
\* entries with an unsupported extension, paths of missing files and values
\* that are neither string nor Buffer are dropped.
C7_KeepsValidPathsAndBuffers ==
  [][\A list \in ListInputs : LoadTracksYields(list, SelectSeq(list, ValidAsCoded))]_vars

\* a load that dropped an entry, kept an empty buffer and kept the order
C7_Witness ==
  /\ tracks = <<Buf(2, 0), File(<<"b", "MP3">>)>>
  /\ \E c \in Slots : calls[c].pc = "done"

\* C8: a nextTrack, previousTrack, goToTrack or resume call that waits for
\* isBusy leaves the wait: it leaves it only when isBusy has cleared or when
\* the idle timeout has elapsed, and unless isBusy clears at some point the
\* call runs to its end.
C8_WaitIsBounded ==
  /\ \A c \in Slots : (calls[c].pc = "wait") ~> (calls[c].pc # "wait")
  /\ \A c \in Slots : (calls[c].pc = "wait") ~> (~InFlight(c) \/ ~isBusy)
  /\ [][\A c \in Slots :
          (calls[c].pc = "wait" /\ calls'[c].pc # "wait") =>
            (~isBusy \/ calls[c].waited >= PollLimit)]_vars

\* a call has waited for the whole timeout and isBusy is still set
C8_Witness ==
  \E c \in Slots :
    calls[c].pc = "wait" /\ calls[c].waited = PollLimit /\ isBusy

\* the handler of the latest register() call for the name
LastRegistered(n) ==
  LET idx == {i \in 1..Len(regLog) : regLog[i].name = n} IN
  IF idx = {} THEN NoHandler
  ELSE regLog[CHOOSE i \in idx : \A j \in idx : i >= j]

\* the handlers entered by the step
NewRuns == SubSeq(runLog', Len(runLog) + 1, Len(runLog'))

\* C10: the registry maps a name to the handler of the latest registration
\* under it, and every invocation of the name, by a rule or by callAction,
\* runs that handler and no earlier one; so for "ai_respond", which AIPlugin
\* and EvaluatorPlugin both register.
C10_LastRegistrationWins ==
  /\ [](\A n \in ActionNames : get(Cur, n) = LastRegistered(n))
  /\ [][\A n \in ActionNames :
          /\ DispatchAction(n) =>
               (Len(NewRuns) >= 1 /\ NewRuns[1] = LastRegistered(n))
          /\ CallActionResume(n) => NewRuns = <<LastRegistered(n)>>
          /\ \A i \in 1..Len(NewRuns) :
               NewRuns[i] = LastRegistered(NewRuns[i].name)]_vars

\* both plugins have registered "ai_respond", EvaluatorPlugin first, and the
\* evaluate_and_speak handler has then called it through callAction
C10_Witness ==
  /\ Cardinality({i \in 1..Len(regLog) : regLog[i].name = "ai_respond"}) = 2
  /\ pendingDecision = "none"
  /\ Len(runLog) = 3
  /\ runLog[1] = Handler("evaluator-service", "evaluate_and_speak")
  /\ runLog[3] = Handler("ai-service", "ai_respond")

\* ------------------------------------------------------------------------
\* The tikfinity socket: each frame is parsed by parseSocketIo42Message and,
\* when it carries an event, emitted on the platform tiktok. The parser's
\* own file is not part of the sources; it follows its tests
\* (parsejson.test.ts:26-58).
\* ------------------------------------------------------------------------
startsWith(msg, prefix) ==
  Len(msg) >= Len(prefix) /\ SubSeq(msg, 1, Len(prefix)) = prefix

\* JSON.parse of a token sequence that is an array of strings and objects:
\* the elements of the array; other texts are not parsed to an array
IsArrayText(body) ==
  /\ Len(body) >= 2
  /\ body[1] = "[" /\ body[Len(body)] = "]"
  /\ \/ Len(body) = 2
     \/ /\ Len(body) % 2 = 1
        /\ \A i \in 2..(Len(body) - 1) :
             IF i % 2 = 0 THEN body[i] \in JsonValues ELSE body[i] = ","
Elements(body) == [k \in 1..((Len(body) - 1) \div 2) |-> body[2 * k]]

\* faulty variant: only the first character of the prefix is compared
parseSocketIo42MessageLoosePrefix(msg) ==
  IF ~startsWith(msg, <<"4">>) \/ Len(msg) < 2 THEN Null
  ELSE LET body == SubSeq(msg, 3, Len(msg))
       IN IF ~IsArrayText(body) \/ Elements(body) = <<>> THEN Null
          ELSE Parsed(Elements(body)[1],
                      IF Len(Elements(body)) >= 2 THEN Elements(body)[2]
                      ELSE "null")

\* parseSocketIo42Message(message): null unless the frame starts with 42
\* and an array follows; else its first element as eventName and its
\* second, or null, as data
parseSocketIo42Message(msg) ==
  IF ~startsWith(msg, <<"4", "2">>) THEN Null
  ELSE LET body == SubSeq(msg, 3, Len(msg))
       IN IF ~IsArrayText(body) \/ Elements(body) = <<>> THEN Null
          ELSE Parsed(Elements(body)[1],
                      IF Len(Elements(body)) >= 2 THEN Elements(body)[2]
                      ELSE "null")

\* the callback tikfinity passes to connect (tikfinity.ts:65-84): frames
\* that yield no event name are dropped; data is the payload, or the raw
\* frame when there is none
onMessage(s, msg) ==
  LET data == parseSocketIo42Message(msg)
      t == [s EXCEPT !.message = msg, !.parsed = data]
  IN IF msg = <<>> \/ data.isNull \/ data.eventName \notin JsonStrings
     THEN t
     ELSE emit(t, "tiktok", data.eventName,
               IF data.data \in JsonObjects THEN "object" ELSE "string")

RECURSIVE SeqsOver(_, _)
SeqsOver(S, n) ==
  IF n = 0 THEN {<<>>}
  ELSE LET shorter == SeqsOver(S, n - 1)
       IN shorter \cup {Append(q, x) : q \in shorter, x \in S}

Frames == {p \o b : p \in SeqsOver(PrefixChars, MaxPrefix),
                    b \in SeqsOver(BodyTokens, MaxBody)}

\* the socket delivers its next frame to the callback
SocketDelivers ==
  /\ frames # <<>>
  /\ Apply([onMessage(Cur, Head(frames)) EXCEPT !.frames = Tail(@)])

\* one frame, of any content, is on its way
InitSocket == Constructed /\ frames \in {<<f>> : f \in Frames}

NextSocket == SocketDelivers

SpecSocket == InitSocket /\ [][NextSocket]_vars

\* ------------------------------------------------------------------------
\* Removing tracks: a playlist of three tracks is loaded and played, the
\* cursor is moved with goToTrack, and tracks are removed.
\* ------------------------------------------------------------------------
RemoveInputs == { <<FileA, Clip(1), Clip(2)>> }

LoadThree == \E list \in RemoveInputs : CallLoadTracksOf(list)

NextRemove ==
  \/ LoadThree
  \/ LoadTracksResume
  \/ CallPlayCurrentTrack
  \/ CallGoToTrack
  \/ CallRemoveTrack
  \/ PlayResumeAfterStop
  \/ PlayResumeAfterLoad
  \/ PlayResumeAfterPlay
  \/ NextTrackResume
  \/ WaitForIdleResume
  \/ MonitorTick
  \/ ImmediateRun
  \/ DeviceFinish

SpecRemove == Init /\ [][NextRemove]_vars

\* ------------------------------------------------------------------------
\* RconManager (plugins/minecraft/rconmanager.ts, kept as unnamed/part_004)
\* and the connection of rcon-client it wraps.  The connection is a black
\* box: Rcon.connect, rcon.send and rcon.end settle later, connect and send
\* with success or with an error.  The callbacks of config.on change nothing
\* of the manager and are left out.
\* ------------------------------------------------------------------------
InQueue(m, k) == \E i \in DOMAIN m.commandQueue : m.commandQueue[i] = k

\* rcon.send(command): the command is handed to the server
rconSend(m, k) == [m EXCEPT !.sent = k]

rejectQueuedCommands(m) ==
  [m EXCEPT !.outcome = [k \in DOMAIN @ |->
                           IF InQueue(m, k) THEN "rejected" ELSE @[k]],
            !.commandQueue = <<>>]

\* faulty variant: attemptReconnect without its test of the counter
attemptReconnectUnlimited(m) ==
  [m EXCEPT !.reconnectAttempts = @ + 1, !.delays = @ + 1]

\* attemptReconnect up to its await of the reconnectDelay timer
attemptReconnect(m) ==
  IF m.reconnectAttempts >= m.maxReconnectAttempts
  THEN rejectQueuedCommands(m)
  ELSE [m EXCEPT !.reconnectAttempts = @ + 1, !.delays = @ + 1]

handleConnectionError(m) ==
  LET m1 == [m EXCEPT !.isConnected = FALSE] IN
  IF m1.reconnectAttempts < m1.maxReconnectAttempts
  THEN attemptReconnect(m1)
  ELSE rejectQueuedCommands(m1)

handleCommandError(m) == attemptReconnect([m EXCEPT !.isConnected = FALSE])

queueCommand(m, k) ==
  LET m1 == [m EXCEPT !.commandQueue = Append(@, k)] IN
  IF ~m1.isConnecting /\ ~m1.isConnected THEN attemptReconnect(m1) ELSE m1

\* the loop of processQueue from its test to its next await (rcon is not
\* null while isConnected is true: both are reset together by disconnect)
processNext(m) ==
  IF Len(m.commandQueue) > 0 /\ m.isConnected
  THEN LET item == Head(m.commandQueue) IN
       [rconSend([m EXCEPT !.commandQueue = Tail(@)], item)
          EXCEPT !.processing = item]
  ELSE [m EXCEPT !.isProcessingQueue = FALSE]

processQueue(m) ==
  IF m.isProcessingQueue \/ Len(m.commandQueue) = 0 \/ ~m.isConnected THEN m
  ELSE processNext([m EXCEPT !.isProcessingQueue = TRUE])

\* the rcon.send awaited by processQueue has settled
processSettled(m, ok) ==
  processNext([m EXCEPT !.outcome[m.processing] =
                          IF ok THEN "resolved" ELSE "rejected",
                        !.processing = 0])

\* connect() up to its await of Rcon.connect; when it throws 'Connection
\* already in progress' nothing has changed
connect(m, by) ==
  IF m.isConnected \/ m.isConnecting THEN m
  ELSE [m EXCEPT !.isConnecting = TRUE, !.connecting = by]

\* Rcon.connect has settled
connectSettled(m, ok) ==
  IF ok
  THEN processQueue([m EXCEPT !.rcon = "open", !.isConnected = TRUE,
                              !.isConnecting = FALSE,
                              !.reconnectAttempts = 0,
                              !.connecting = "none"])
  ELSE handleConnectionError([m EXCEPT !.isConnecting = FALSE,
                                       !.connecting = "none"])

\* attemptReconnect after its timer
attemptReconnectAfterDelay(m) ==
  connect([m EXCEPT !.delays = @ - 1], "reconnect")

\* send(command) up to its await or to the promise of queueCommand
send(m) ==
  LET k == m.sends + 1
      m1 == [m EXCEPT !.sends = k, !.outcome[k] = "pending",
                      !.disconnected = FALSE]
  IN IF ~m1.isConnected \/ m1.rcon = "null" THEN queueCommand(m1, k)
     ELSE [rconSend(m1, k) EXCEPT !.sending = @ \cup {k}]

\* the rcon.send awaited by send() has settled
sendSettled(m, k, ok) ==
  LET m1 == [m EXCEPT !.sending = @ \ {k}] IN
  IF ok THEN [m1 EXCEPT !.outcome[k] = "resolved"]
  ELSE queueCommand(handleCommandError(m1), k)

\* disconnect() up to its await of rcon.end(), or to its end without one
disconnect(m) ==
  LET m1 == [m EXCEPT !.disconnected = TRUE] IN
  IF m1.rcon # "null" THEN [m1 EXCEPT !.ending = TRUE]
  ELSE [m1 EXCEPT !.isConnected = FALSE]

disconnectFinish(m) ==
  [m EXCEPT !.ending = FALSE, !.rcon = "null", !.isConnected = FALSE]

\* RconManager.resetInstance(), which the minecraft-rcon plugin calls in
\* onUnload; the handlers the plugin registered keep their reference
resetInstance(m) ==
  IF m.instance THEN [disconnect(m) EXCEPT !.instance = FALSE] ELSE m

updateConfig(m, n) == [m EXCEPT !.maxReconnectAttempts = n]

SetManager(m) == Apply([Cur EXCEPT !.manager = m])

CallConnect ==
  LET m == connect([manager EXCEPT !.disconnected = FALSE], "public")
  IN manager # m /\ SetManager(m)

CallSend ==
  /\ manager.sends < MaxCommands
  /\ manager.delays < MaxDelays
  /\ SetManager(send(manager))

CallDisconnect == ~manager.ending /\ SetManager(disconnect(manager))

CallResetInstance ==
  manager.instance /\ ~manager.ending /\ SetManager(resetInstance(manager))

CallUpdateConfig ==
  \E n \in 0..DefaultMaxReconnectAttempts :
    n # manager.maxReconnectAttempts /\ SetManager(updateConfig(manager, n))

ConnectSettles ==
  \E ok \in BOOLEAN :
    /\ manager.isConnecting
    /\ ok \/ manager.delays < MaxDelays
    /\ SetManager(connectSettled(manager, ok))

DelayOver ==
  manager.delays > 0 /\ SetManager(attemptReconnectAfterDelay(manager))

SendSettles ==
  \E k \in manager.sending, ok \in BOOLEAN :
    /\ ok \/ manager.delays + 2 <= MaxDelays
    /\ SetManager(sendSettled(manager, k, ok))

ProcessSettles ==
  \E ok \in BOOLEAN :
    manager.processing # 0 /\ SetManager(processSettled(manager, ok))

DisconnectResume == manager.ending /\ SetManager(disconnectFinish(manager))

NextRcon ==
  \/ CallConnect
  \/ CallSend
  \/ CallDisconnect
  \/ CallResetInstance
  \/ ConnectSettles
  \/ DelayOver
  \/ SendSettles
  \/ ProcessSettles
  \/ DisconnectResume

SpecRcon == Init /\ [][NextRcon]_vars

\* the timers fire and the calls on the connection settle
SpecRconLive ==
  /\ SpecRcon
  /\ WF_vars(ConnectSettles) /\ WF_vars(DelayOver) /\ WF_vars(SendSettles)
  /\ WF_vars(ProcessSettles) /\ WF_vars(DisconnectResume)

\* the same with updateConfig called in between
NextRconConfig == NextRcon \/ CallUpdateConfig

SpecRconConfig == Init /\ [][NextRconConfig]_vars

\* ------------------------------------------------------------------------
\* TikTokWebSocket (plugins/tiktok/websocket.ts:19-149).  The WebSocket is a
\* black box: a socket that was created opens or closes later, and delivers
\* its open and close events to the handlers connect() gave it.  The handlers
\* refer to the fields of the TikTokWebSocket, not to their own socket.  The
\* timer of onopen and onmessage only send on the socket and are left out.
\* ------------------------------------------------------------------------
wsIsConnected(w) == w.socket # 0 /\ w.readyState[w.socket] = "open"

\* connect(): a new socket replaces this.socket unless that one is open
wsConnect(w) ==
  IF wsIsConnected(w) THEN w
  ELSE [w EXCEPT !.isManuallyClosed = FALSE,
                 !.made = @ + 1,
                 !.socket = w.made + 1,
                 !.readyState[w.made + 1] = "connecting"]

wsDisconnect(w) ==
  LET w1 == [w EXCEPT !.isManuallyClosed = TRUE, !.disconnected = TRUE]
      w2 == IF w1.reconnectTimer # "null"
            THEN [w1 EXCEPT !.reconnectTimer = "null"]
            ELSE w1
  IN IF w2.socket # 0
     THEN [w2 EXCEPT !.readyState[w2.socket] =
                        IF @ = "closed" THEN @ ELSE "closing",
                     !.socket = 0]
     ELSE w2

\* setTimeout: the handle of a timer that is still pending is overwritten
scheduleReconnect(w) ==
  IF w.reconnectAttempts >= w.maxReconnectAttempts THEN w
  ELSE [w EXCEPT !.reconnectAttempts = @ + 1,
                 !.lostTimers = IF w.reconnectTimer = "pending"
                                THEN @ + 1 ELSE @,
                 !.reconnectTimer = "pending"]

\* socket.onopen of socket i
onopen(w, i) ==
  [w EXCEPT !.readyState[i] = "open", !.reconnectAttempts = 0]

\* socket.onclose of socket i
onclose(w, i) ==
  LET w1 == [w EXCEPT !.readyState[i] = "closed", !.socket = 0]
  IN IF ~w1.isManuallyClosed /\ w1.reconnect THEN scheduleReconnect(w1)
     ELSE w1

\* updatePayload(newPayload): sent on the open socket, or connect()
updatePayload(w, newPayload) ==
  LET w1 == [w EXCEPT !.payload = newPayload]
  IN IF wsIsConnected(w1) THEN w1 ELSE wsConnect(w1)

\* the payloads the tikfinity webview hands over
Payloads == {"channelA", "channelB"}

\* pending reconnect timers
PendingTimers(w) ==
  w.lostTimers + (IF w.reconnectTimer = "pending" THEN 1 ELSE 0)

SetWs(w) == Apply([Cur EXCEPT !.ws = w])

WsRoom(w) == w.made < MaxSockets

CallWsConnect ==
  LET w == wsConnect([ws EXCEPT !.disconnected = FALSE])
  IN WsRoom(ws) /\ ws # w /\ SetWs(w)

CallUpdatePayload ==
  \E newPayload \in Payloads :
    LET w == updatePayload([ws EXCEPT !.disconnected = FALSE], newPayload)
    IN WsRoom(ws) /\ ws # w /\ SetWs(w)

CallWsDisconnect ==
  ws # wsDisconnect(ws) /\ SetWs(wsDisconnect(ws))

SocketOpens ==
  \E i \in DOMAIN ws.readyState :
    ws.readyState[i] = "connecting" /\ SetWs(onopen(ws, i))

SocketCloses ==
  \E i \in DOMAIN ws.readyState :
    /\ ws.readyState[i] \in {"connecting", "open", "closing"}
    /\ ws.reconnectTimer = "pending" => ws.lostTimers < MaxLostTimers
    /\ SetWs(onclose(ws, i))

\* the timer this.reconnectTimer is the handle of fires
ReconnectTimerFires ==
  /\ ws.reconnectTimer = "pending"
  /\ WsRoom(ws)
  /\ SetWs(wsConnect([ws EXCEPT !.reconnectTimer = "fired"]))

\* a timer whose handle was overwritten fires
LostTimerFires ==
  /\ ws.lostTimers > 0
  /\ WsRoom(ws)
  /\ SetWs(wsConnect([ws EXCEPT !.lostTimers = @ - 1]))

NextWs ==
  \/ CallWsConnect
  \/ CallUpdatePayload
  \/ CallWsDisconnect
  \/ SocketOpens
  \/ SocketCloses
  \/ ReconnectTimerFires
  \/ LostTimerFires

SpecWs == Init /\ [][NextWs]_vars

\* ------------------------------------------------------------------------
\* Properties of the rule engine and of its callers
\* ------------------------------------------------------------------------
\* a condition that holds, and one whose evaluation fails, with helper map hs
Holds(c, hs) == c.kind = "absent" \/ (c.kind = "helper" /\ c.helper \in hs)
Fails(c, hs) == c.kind = "helper" /\ c.helper \notin hs

\* the rules bound to the event of dispatch x and enabled, in the order of
\* the rule set x started with
MatchingOf(x) ==
  SelectSeq(x.snapshot, LAMBDA r : RuleDefs[r].eventName = x.event
                                   /\ RuleDefs[r].enabled)
PositionIn(m, r) == CHOOSE k \in 1..Len(m) : m[k] = r
StartedIn(x, r, j) == \E p \in 1..Len(x.log) : x.log[p] = Entry(r, j, "start")
AllStartedIn(x, r) ==
  \A j \in 1..Len(RuleDefs[r].actions) : StartedIn(x, r, j)

\* C11: when action k of a matching rule fails, the actions k+1..N of the
\* rule and all the actions of the later matching rules whose condition
\* holds are still invoked, and the dispatch does not throw.
C11_FailureIsIsolated ==
  \A d \in DOMAIN dispatches :
    LET x == dispatches[d]
        m == MatchingOf(x)
    IN /\ ~x.threw
       /\ x.pc = "completed" =>
            \A p \in 1..Len(x.log) :
              x.log[p].phase = "fail" =>
                /\ AllStartedIn(x, x.log[p].rule)
                /\ \A k \in 1..Len(m) :
                     (k > PositionIn(m, x.log[p].rule)
                      /\ Holds(RuleDefs[m[k]].condition, x.helpers))
                     => AllStartedIn(x, m[k])

\* the first action of rule 1 has failed and the dispatch has completed
\* after the second action of rule 1 and the action of rule 3
C11_Witness ==
  \E d \in DOMAIN dispatches :
    /\ dispatches[d].pc = "completed"
    /\ \E p \in 1..Len(dispatches[d].log) :
         dispatches[d].log[p] = Entry(1, 1, "fail")
    /\ StartedIn(dispatches[d], 1, 2)
    /\ StartedIn(dispatches[d], 3, 1)

\* the rules whose condition dispatch x has evaluated, in that order
EvaluatedIn(x) ==
  LET c == SelectSeq(x.log, LAMBDA e : e.idx = 0)
  IN [k \in 1..Len(c) |-> c[k].rule]

\* C12: within one dispatch the matching rules are evaluated in the order
\* of the rule set; the actions of a satisfied rule are invoked in declared
\* order, each one only after the one before it has settled; a rule whose
\* condition does not hold has no action invoked, and a later rule whose
\* condition holds still has all of its actions invoked.
C12_DeclarationOrder ==
  \A d \in DOMAIN dispatches :
    LET x == dispatches[d]
        m == MatchingOf(x)
    IN /\ IsPrefix(EvaluatedIn(x), m)
       /\ x.pc = "completed" => EvaluatedIn(x) = m
       /\ \A p \in 1..Len(x.log) :
            LET e == x.log[p]
            IN /\ e.idx > 0 => Holds(RuleDefs[e.rule].condition, x.helpers)
               /\ e.phase = "start" =>
                    /\ p > 1
                    /\ IF e.idx = 1
                       THEN x.log[p - 1] = Entry(e.rule, 0, "true")
                       ELSE /\ x.log[p - 1].rule = e.rule
                            /\ x.log[p - 1].idx = e.idx - 1
                            /\ x.log[p - 1].phase \in {"ok", "fail"}
               /\ e.phase \in {"ok", "fail"} =>
                    /\ p > 1
                    /\ x.log[p - 1] = Entry(e.rule, e.idx, "start")
       /\ x.pc = "completed" =>
            \A k \in 1..Len(m) :
              Holds(RuleDefs[m[k]].condition, x.helpers)
              => AllStartedIn(x, m[k])

\* rule 2, whose condition is false, and then rule 3 were evaluated for one
\* event: the action of rule 3 was invoked and none of rule 2
C12_Witness ==
  \E d \in DOMAIN dispatches :
    LET x == dispatches[d]
    IN /\ x.pc = "completed"
       /\ \E p \in 1..Len(x.log) :
            /\ x.log[p] = Entry(2, 0, "false")
            /\ p + 1 <= Len(x.log)
            /\ x.log[p + 1] = Entry(3, 0, "true")
       /\ StartedIn(x, 3, 1)
       /\ ~StartedIn(x, 2, 1)

\* C13: an event that matches no enabled rule of the active rule set, the
\* empty set the engine holds before the first rule load included, has no
\* action handler invoked and its dispatch does not throw.
C13_NoMatchIsNoOp ==
  \A d \in DOMAIN dispatches :
    LET x == dispatches[d]
    IN /\ (x.pc # "idle" /\ MatchingOf(x) = <<>>) =>
            x.log = <<>> /\ x.pc = "completed" /\ ~x.threw
       /\ (x.pc # "idle" /\ ~x.loadedAtStart) =>
            x.log = <<>> /\ x.pc = "completed" /\ ~x.threw

\* a gift event was dispatched on a rule set that holds rules for chat and
\* the disabled rule for gift
C13_Witness ==
  \E d \in DOMAIN dispatches :
    /\ dispatches[d].pc = "completed"
    /\ dispatches[d].event = "gift"
    /\ dispatches[d].snapshot = <<1, 2, 4>>
    /\ dispatches[d].log = <<>>

\* C14: a rule whose condition fails to evaluate (it calls a helper that is
\* not in the helper map of the dispatch) is treated as not matching: none
\* of its actions is invoked, the dispatch does not throw, and the rules
\* after it are still evaluated and, when satisfied, run.
C14_ConditionFailureIsFalse ==
  \A d \in DOMAIN dispatches :
    LET x == dispatches[d]
        m == MatchingOf(x)
    IN \A k \in 1..Len(m) :
         Fails(RuleDefs[m[k]].condition, x.helpers) =>
           /\ ~x.threw
           /\ \A j \in 1..Len(RuleDefs[m[k]].actions) : ~StartedIn(x, m[k], j)
           /\ x.pc = "completed" =>
                \A i \in (k + 1)..Len(m) :
                  /\ \E p \in 1..Len(x.log) :
                       x.log[p].rule = m[i] /\ x.log[p].idx = 0
                  /\ Holds(RuleDefs[m[i]].condition, x.helpers)
                     => AllStartedIn(x, m[i])

\* the condition of rule 1 failed for want of the helper "last", and rules
\* 2 and 3 were evaluated after it
C14_Witness ==
  \E d \in DOMAIN dispatches :
    LET x == dispatches[d]
    IN /\ x.pc = "completed"
       /\ "last" \notin x.helpers
       /\ Len(x.log) >= 4
       /\ x.log[1] = Entry(1, 0, "fails")
       /\ x.log[2] = Entry(2, 0, "false")
       /\ x.log[3] = Entry(3, 0, "true")
       /\ x.log[4] = Entry(3, 1, "start")

\* C15: a dispatch that is suspended while the watcher callback replaces
\* the rule set goes on with the rule set it started with: whatever the
\* active set is by then, the rules it evaluates and runs are rules of its
\* own set, in the order of that set, and all of them once it completes.
C15_OneRuleSetPerDispatch ==
  \A d \in DOMAIN dispatches :
    LET x == dispatches[d]
    IN /\ \A p \in 1..Len(x.log) :
            \E k \in 1..Len(x.snapshot) : x.snapshot[k] = x.log[p].rule
       /\ IsPrefix(EvaluatedIn(x), MatchingOf(x))
       /\ x.pc = "completed" => EvaluatedIn(x) = MatchingOf(x)

\* a dispatch that started on the rules 1, 2, 3 is suspended in the action
\* of rule 3 after the callback has replaced the rule set by rule 4 alone
C15_Witness ==
  \E d \in DOMAIN dispatches :
    /\ dispatches[d].pc = "awaiting"
    /\ dispatches[d].snapshot = <<1, 2, 3>>
    /\ rules = <<4>>
    /\ StartedIn(dispatches[d], 1, 2)
    /\ StartedIn(dispatches[d], 3, 1)

C17_HelpersSnapshotPerDispatch ==
  \A d \in DOMAIN dispatches :
    dispatches[d].pc # "idle"
    => dispatches[d].registeredAtStart \subseteq dispatches[d].helpers

\* C18: an event emitted with a non-empty eventName and an object as data
\* is handed to the rule engine exactly once, whatever platform it was
\* emitted on.
C18_EveryEmitIsDispatchedOnce ==
  (emitted.eventName # "" /\ emitted.data = "object") => emitted.handed = 1

\* C19: parseSocketIo42Message returns null for a frame that does not start
\* with 42; for 42[name, payload] it returns name as eventName and payload
\* as data, and for 42[name] name as eventName and null as data.
C19_ParsesSocketIo42 ==
  /\ ~startsWith(message, <<"4", "2">>) => parsed = Null
  /\ \A name \in JsonStrings :
       /\ message = <<"4", "2", "[", name, "]">>
          => parsed = Parsed(name, "null")
       /\ \A payload \in JsonValues :
            message = <<"4", "2", "[", name, ",", payload, "]">>
            => parsed = Parsed(name, payload)

\* the frame 42["chat", {}] was delivered and parsed
C19_Witness ==
  /\ message = <<"4", "2", "[", "chat", ",", "{}", "]">>
  /\ parsed = Parsed("chat", "{}")
  /\ emitted.eventName = "chat"

\* C20: once stop() has returned, no track starts playing (the device is
\* not told to play and isPlaying does not become true) until a later
\* playCurrentTrack, nextTrack, previousTrack, goToTrack, resume or skip
\* call, also when stop() was called while a playCurrentTrack() call was
\* suspended at one of its awaits.
C20_NothingStartsAfterStop == stopped => (~isPlaying /\ ~devPlaying)

\* no call is in flight and no deferred callback is pending
Quiet == (\A c \in DOMAIN calls : calls[c].pc \in {"idle", "done"})
         /\ immediates = 0

\* C21: whenever isPlaying is true and the device has finished the track,
\* the manager reacts: left to itself (no call in flight, nothing
\* deferred), it has its monitor armed and the monitor's tick is not
\* switched off by isStopping, so isPlaying cannot stay true forever with
\* the device idle.
C21_FinishedTrackIsNoticed ==
  (isPlaying /\ ~devPlaying /\ Quiet) => (monitorInterval /\ ~isStopping)

\* C22: skip() called with the cursor at i goes on to the track at i + 1:
\* when its nextTrack() has moved the cursor, the cursor is i + 1, or 0
\* when i was the last track and loop is on, or the playlist ends when
\* loop is off. (calls[c].idx holds the cursor at the time of the call.)
C22_SkipGoesToNext ==
  [][\A c \in DOMAIN calls :
       (calls[c].op = "skip" /\ calls[c].pc \in {"S_stop", "wait"}
        /\ calls'[c].pc \notin {"S_stop", "wait"})
       => LET i == calls[c].idx
          IN IF i + 1 < Len(tracks) THEN currentTrackIndex' = i + 1
             ELSE IF loop THEN currentTrackIndex' = 0
             ELSE ~isPlaying' /\ calls'[c].pc = "done"]_vars

\* C23: removeTrack(index) on the track that is playing stops playback and
\* leaves the cursor on the track that followed the removed one (which has
\* moved to the removed one's index).
C23_RemovingCurrentGoesToNext ==
  [][\A index \in 0..(Len(tracks) - 1) :
       (isPlaying /\ index = currentTrackIndex
        /\ Apply(removeTrack(Cur, index)))
       => /\ ~isPlaying'
          /\ index + 1 < Len(tracks) => currentTrackIndex' = index]_vars

\* C24: removeTrack(index) with 0 <= index < currentTrackIndex removes exactly
\* the track at index and returns it; the cursor moves back by one, so that it
\* designates the same track as before, and isPlaying is unchanged.
C24_RemovingEarlierKeepsCurrent ==
  [][\A index \in 0..(Len(tracks) - 1) :
       (index < currentTrackIndex /\ Apply(removeTrack(Cur, index)))
       => /\ tracks' = RemoveAt(tracks, index)
          /\ removeTrackReturns(Cur, index) = tracks[index + 1]
          /\ isPlaying' = isPlaying
          /\ currentTrackIndex' = currentTrackIndex - 1
          /\ currentTrackIndex < Len(tracks)
               => tracks'[currentTrackIndex' + 1] = tracks[currentTrackIndex + 1]]_vars

\* goToTrack(1) on three tracks has moved the cursor to 1 and is loading the
\* track; meanwhile the track at index 0 was removed and the cursor is at 0
C24_Witness ==
  /\ tracks = <<Clip(1), Clip(2)>>
  /\ currentTrackIndex = 0
  /\ \E c \in PublicSlots :
       calls[c].op = "goToTrack" /\ calls[c].idx = 1 /\ calls[c].pc = "P_load"

\* C25: once dispose() has returned, and until the manager is given something
\* to do again, tracks is empty, no listener is registered (so none is
\* invoked), the monitor timer is not armed and isPlaying is false, whatever
\* calls were suspended when dispose() was called.
C25_DisposedStaysInert ==
  disposed => (tracks = <<>> /\ ~onPlaylistEnd /\ ~monitorInterval /\ ~isPlaying)

\* C26: a command that send() has put in the queue does not stay pending for
\* ever: its promise is resolved or rejected in the end.
C26_QueuedCommandSettles ==
  \A k \in Commands :
    InQueue(manager, k) ~> (manager.outcome[k] \in {"resolved", "rejected"})

\* the step hands command k to rcon.send: from send() itself, or from the
\* loop of processQueue
HandedToServer(k) ==
  \/ manager'.sends = k /\ manager.sends # k /\ k \in manager'.sending
  \/ manager'.processing = k /\ manager.processing # k

\* C27: commands reach the server in the order of the send() calls: when a
\* command is handed to rcon.send, no command of an earlier send() call is
\* still waiting in the queue.
C27_SentInSendOrder ==
  [][\A k \in Commands :
       HandedToServer(k)
       => \A i \in DOMAIN manager'.commandQueue :
            manager'.commandQueue[i] > k]_vars

\* the reconnect attempts under way: attemptReconnect calls waiting for their
\* timer, and the connect() one of them has in progress
ReconnectsUnderWay(m) ==
  m.delays + (IF m.connecting = "reconnect" THEN 1 ELSE 0)

\* C28: at most one reconnect attempt (a pending reconnect delay or a connect
\* in progress) exists at any time.
C28_OneReconnectAtATime == ReconnectsUnderWay(manager) <= 1

\* C29 as claimed: in every reachable state
\* 0 <= reconnectAttempts <= maxReconnectAttempts.
C29_CounterInRange ==
  /\ 0 <= manager.reconnectAttempts
  /\ manager.reconnectAttempts <= manager.maxReconnectAttempts

\* the step in which a Rcon.connect succeeds
ConnectSucceeds ==
  manager.isConnecting /\ ~manager'.isConnecting /\ manager'.isConnected

\* C29 amended: reconnectAttempts is never negative and is never raised above
\* maxReconnectAttempts, so that it exceeds maxReconnectAttempts only after
\* updateConfig has lowered maxReconnectAttempts below it; every successful
\* connect resets it to 0.
C29_CounterNeverRaisedAboveLimit ==
  [][/\ 0 <= manager'.reconnectAttempts
     /\ manager'.reconnectAttempts > manager.reconnectAttempts
          => manager'.reconnectAttempts <= manager'.maxReconnectAttempts
     /\ (manager.reconnectAttempts <= manager.maxReconnectAttempts
         /\ manager'.maxReconnectAttempts >= manager.maxReconnectAttempts)
          => manager'.reconnectAttempts <= manager'.maxReconnectAttempts
     /\ ConnectSucceeds => manager'.reconnectAttempts = 0]_vars

\* a connect has succeeded, and reset the counter, while a reconnect attempt
\* that had raised it was still waiting for its timer
C29_Witness ==
  manager.isConnected /\ manager.reconnectAttempts = 0 /\ manager.delays > 0

\* C30: after disconnect() or resetInstance() the manager calls Rcon.connect
\* again only when connect() or send() is called: while neither has been, no
\* step starts a connection.
C30_NoConnectAfterDisconnect ==
  [][(manager.disconnected /\ manager'.disconnected)
       => ~(~manager.isConnecting /\ manager'.isConnecting)]_vars

\* C31: after disconnect(), while neither connect() nor updatePayload() is
\* called, no socket is created and no reconnect timer is started, whatever
\* timers were pending and whatever close events arrive.
C31_NothingAfterDisconnect ==
  [][(ws.disconnected /\ ws'.disconnected)
       => /\ ws'.made = ws.made
          /\ PendingTimers(ws') <= PendingTimers(ws)]_vars

====
